---- MODULE Spec2Model ----
(***************************************************************************)
(* State-machine model of the MapInterface component (src/README.md,       *)
(* lines 61-660): community route authoring, rating and persistence, the   *)
(* one-shot geolocation request, destination autocomplete, route planning  *)
(* and the texts shown for durations and ratings; and of the location      *)
(* acquisition of the Mapbox version of the component, which takes its     *)
(* access token as a prop (src/unnamed/part_000).  The state both versions *)
(* declare under the same name is one variable here; each specification    *)
(* takes the actions of one version.                                       *)
(*                                                                         *)
(* Conventions.                                                            *)
(*  - A JavaScript string is a sequence of one-character strings, so that  *)
(*    Date.now().toString() can be computed digit by digit; the empty      *)
(*    string (falsy) is <<>>.                                              *)
(*  - A value that may be null is a sequence of length 0 (null) or 1.      *)
(*  - A coordinate is the pair <<lng, lat>>; coordinates are drawn from a  *)
(*    small set of integer grid points.  A position fix counts degrees in  *)
(*    units of 0.00001, so that toFixed(4) has a digit to round.           *)
(*  - A JSON text is a sequence of lexical tokens; JSON.stringify builds   *)
(*    it and JSON.parse is a recursive-descent parser over it.             *)
(*  - React runs an effect after the render that follows a state change    *)
(*    and before the next event is handled.  Effects that only touch the   *)
(*    map are folded into the event that triggers them; the localStorage   *)
(*    effect is its own step, taken before any other event.                *)
(***************************************************************************)
EXTENDS Integers, Sequences, FiniteSets, TLC

(***************************************************************************)
(* Bounds of the model and input domains.                                  *)
(***************************************************************************)
MaxPoints == 4      \* cap on the points held by the collection and the draft
MaxRatings == 2     \* cap on the ratings held by the collection

Coords == { <<0, 1>>, <<2, 3>> }             \* [lng, lat] of a map click
Names == { <<>>, <<"A">> }                   \* texts typed as route name
Descs == { <<>>, <<"D">> }                   \* texts typed as description
Times == { 9, 10 }                           \* values Date.now() returns
Stars == 1..5                                \* README.md:480  [1,2,3,4,5]

NULL == <<>>
Some(x) == <<x>>

VARIABLES
  communityRoutes,          \* README.md:116
  storage,                  \* localStorage record 'communityRoutes'
  persistPending,           \* the effect of README.md:133 has to run
  crashed,                  \* an exception escaped during render
  showCommunity,            \* README.md:120
  creatingRoute,            \* README.md:121
  newRouteCoords,           \* README.md:122
  newRouteName,             \* README.md:123
  newRouteDesc,             \* README.md:124
  selectedCommunityRoute,   \* README.md:125
  ratingInput,              \* README.md:126
  clickOn,                  \* the map click listener of README.md:298 is on
  userLocation,             \* README.md:103
  locationLoading,          \* README.md:107
  geoPending,               \* the position requests outstanding, each the
                            \* mapboxToken its callbacks closed over
  geoEffect,                \* the effect of README.md:138 has to run
  supported,                \* navigator.geolocation is there
  positionRequests,         \* number of getCurrentPosition calls so far
  currentAddress,           \* README.md:104
  lookups,                  \* the reverse-geocode fetches outstanding
  mapboxToken,              \* part_000:15  prop
  showTokenDialog,          \* part_000:23
  tokenInput,               \* part_000:24
  endPoint,                 \* README.md:105
  suggestions,              \* README.md:112
  suggestionLoading,        \* README.md:113
  fetches,                  \* the autocomplete requests outstanding
  travelTimes,              \* README.md:129
  selectedMode,             \* README.md:130
  routeLayer,               \* README.md:109
  mapLayers,                \* the polylines of route plans on the map
  ops,                      \* the calls of handleRouteCalculation in flight
  planCount,                \* number of such calls that sent a request
  isOfflineMode,            \* README.md:106
  onLine,                   \* navigator.onLine
  draftLayers,              \* the polylines of the draft route on the map
  tempLayer,                \* README.md:307, held by the cleanup of the effect
  selectedLayers,           \* the polylines of community routes on the map
  polyline,                 \* README.md:319, held by the cleanup of the effect
  showTokenInput,           \* MapPage.tsx:11
  MapPage_tokenInput,       \* MapPage.tsx:10
  sent,                     \* the HTTP requests the last step issued
  toast                     \* the notice the last step raised

vars == << communityRoutes, storage, persistPending, crashed, showCommunity,
           creatingRoute, newRouteCoords, newRouteName, newRouteDesc,
           selectedCommunityRoute, ratingInput, clickOn, userLocation,
           locationLoading, geoPending, geoEffect, supported,
           positionRequests, currentAddress, lookups, mapboxToken,
           showTokenDialog, tokenInput, endPoint, suggestions, suggestionLoading,
           fetches, travelTimes, selectedMode,
           routeLayer, mapLayers, ops, planCount, isOfflineMode, onLine,
           draftLayers, tempLayer, selectedLayers, polyline, showTokenInput,
           MapPage_tokenInput, sent, toast >>

authoringVars == << creatingRoute, newRouteCoords, newRouteName, newRouteDesc,
                    clickOn >>
ratingVars == << selectedCommunityRoute, ratingInput >>
tokenVars == << mapboxToken, showTokenDialog, tokenInput >>
geoVars == << userLocation, locationLoading, geoPending, geoEffect, supported,
             positionRequests, currentAddress, lookups, tokenVars >>
suggestVars == << suggestions, suggestionLoading, fetches >>
planVars == << endPoint, suggestVars, travelTimes, selectedMode, routeLayer,
               mapLayers, ops, planCount >>
communityVars == << communityRoutes, storage, persistPending, crashed,
                    showCommunity, authoringVars, ratingVars >>
netVars == << isOfflineMode, onLine >>
layerVars == << draftLayers, tempLayer, selectedLayers, polyline >>
pageVars == << showTokenInput, MapPage_tokenInput >>
sideVars == << netVars, layerVars, pageVars >>

NoToast == "none"
NoRequest == {}

\* an HTTP GET: what is asked and with which arguments
Request(kind, q, profile, from, to) ==
  [ kind |-> kind, q |-> q, profile |-> profile, from |-> from, to |-> to ]

(***************************************************************************)
(* RouteType and Date.now().toString().                                    *)
(***************************************************************************)
RouteType(id, name, description, coordinates, ratings) ==
  [ id |-> id, name |-> name, description |-> description,
    coordinates |-> coordinates, ratings |-> ratings ]

DigitChar == << "0", "1", "2", "3", "4", "5", "6", "7", "8", "9" >>

RECURSIVE NumToString(_)
NumToString(n) ==
  IF n < 10 THEN << DigitChar[n + 1] >>
  ELSE NumToString(n \div 10) \o << DigitChar[(n % 10) + 1] >>

(***************************************************************************)
(* JSON texts as token sequences.                                          *)
(***************************************************************************)
Tok(k) == [ k |-> k, s |-> <<>>, n |-> 0 ]
StrTok(s) == [ k |-> "str", s |-> s, n |-> 0 ]
NumTok(n) == [ k |-> "num", s |-> <<>>, n |-> n ]

KeyId == << "i", "d" >>
KeyName == << "n", "a", "m", "e" >>
KeyDescription ==
  << "d", "e", "s", "c", "r", "i", "p", "t", "i", "o", "n" >>
KeyCoordinates ==
  << "c", "o", "o", "r", "d", "i", "n", "a", "t", "e", "s" >>
KeyRatings == << "r", "a", "t", "i", "n", "g", "s" >>

RECURSIVE JoinComma(_)
JoinComma(parts) ==
  IF Len(parts) = 0 THEN <<>>
  ELSE IF Len(parts) = 1 THEN parts[1]
  ELSE parts[1] \o << Tok(",") >> \o JoinComma(Tail(parts))

StringifyArray(parts) == << Tok("[") >> \o JoinComma(parts) \o << Tok("]") >>

StringifyNumbers(ns) ==
  StringifyArray([ i \in 1..Len(ns) |-> << NumTok(ns[i]) >> ])

StringifyRoute(r) ==
  << Tok("{") >>
  \o << StrTok(KeyId), Tok(":"), StrTok(r.id), Tok(",") >>
  \o << StrTok(KeyName), Tok(":"), StrTok(r.name), Tok(",") >>
  \o << StrTok(KeyDescription), Tok(":"), StrTok(r.description), Tok(",") >>
  \o << StrTok(KeyCoordinates), Tok(":") >>
  \o StringifyArray([ i \in 1..Len(r.coordinates) |->
                        StringifyNumbers(r.coordinates[i]) ])
  \o << Tok(","), StrTok(KeyRatings), Tok(":") >>
  \o StringifyNumbers(r.ratings)
  \o << Tok("}") >>

JSONstringify(routes) ==
  StringifyArray([ i \in 1..Len(routes) |-> StringifyRoute(routes[i]) ])

(***************************************************************************)
(* JSON.parse, for texts that are either the serialization of a RouteType  *)
(* array or no JSON at all: a parse that fails is the SyntaxError          *)
(* JSON.parse throws.  A parse returns [ok, val, pos]: whether it          *)
(* succeeded, the value, and the index of the first token not consumed.    *)
(***************************************************************************)
ParseFail == [ ok |-> FALSE, val |-> <<>>, pos |-> 0 ]
ParseOk(v, p) == [ ok |-> TRUE, val |-> v, pos |-> p ]

Tk(toks, i) == IF i >= 1 /\ i <= Len(toks) THEN toks[i].k ELSE "eof"

IsKey(toks, i, key) ==
  /\ Tk(toks, i) = "str"
  /\ toks[i].s = key
  /\ Tk(toks, i + 1) = ":"

RECURSIVE ParseNumberList(_, _, _)
ParseNumberList(toks, i, acc) ==
  IF Tk(toks, i) # "num" THEN ParseFail
  ELSE IF Tk(toks, i + 1) = ","
       THEN ParseNumberList(toks, i + 2, Append(acc, toks[i].n))
  ELSE IF Tk(toks, i + 1) = "]" THEN ParseOk(Append(acc, toks[i].n), i + 2)
  ELSE ParseFail

ParseNumbers(toks, i) ==
  IF Tk(toks, i) # "[" THEN ParseFail
  ELSE IF Tk(toks, i + 1) = "]" THEN ParseOk(<<>>, i + 2)
  ELSE ParseNumberList(toks, i + 1, <<>>)

\* an array of coordinates; c is the parse of the element at hand
RECURSIVE ParseCoordinateList(_, _, _)
RECURSIVE AfterCoordinate(_, _, _)
AfterCoordinate(toks, acc, c) ==
  IF ~c.ok THEN ParseFail
  ELSE IF Tk(toks, c.pos) = ","
       THEN ParseCoordinateList(toks, c.pos + 1, Append(acc, c.val))
  ELSE IF Tk(toks, c.pos) = "]" THEN ParseOk(Append(acc, c.val), c.pos + 1)
  ELSE ParseFail

ParseCoordinateList(toks, i, acc) ==
  AfterCoordinate(toks, acc, ParseNumbers(toks, i))

ParseCoordinates(toks, i) ==
  IF Tk(toks, i) # "[" THEN ParseFail
  ELSE IF Tk(toks, i + 1) = "]" THEN ParseOk(<<>>, i + 2)
  ELSE ParseCoordinateList(toks, i + 1, <<>>)

\* an object {"id":s,"name":s,"description":s,"coordinates":cs,"ratings":rs}
\* that starts at token i; cs and rs are the parses of its two arrays
AfterRatings(toks, i, cs, rs) ==
  IF ~rs.ok \/ Tk(toks, rs.pos) # "}" THEN ParseFail
  ELSE ParseOk(RouteType(toks[i + 3].s, toks[i + 7].s, toks[i + 11].s,
                         cs.val, rs.val),
               rs.pos + 1)

AfterCoordinates(toks, i, cs) ==
  IF ~cs.ok \/ Tk(toks, cs.pos) # "," \/ ~IsKey(toks, cs.pos + 1, KeyRatings)
  THEN ParseFail
  ELSE AfterRatings(toks, i, cs, ParseNumbers(toks, cs.pos + 3))

ParseRoute(toks, i) ==
  IF ~ ( /\ Tk(toks, i) = "{"
         /\ IsKey(toks, i + 1, KeyId)
         /\ Tk(toks, i + 3) = "str" /\ Tk(toks, i + 4) = ","
         /\ IsKey(toks, i + 5, KeyName)
         /\ Tk(toks, i + 7) = "str" /\ Tk(toks, i + 8) = ","
         /\ IsKey(toks, i + 9, KeyDescription)
         /\ Tk(toks, i + 11) = "str" /\ Tk(toks, i + 12) = ","
         /\ IsKey(toks, i + 13, KeyCoordinates) )
  THEN ParseFail
  ELSE AfterCoordinates(toks, i, ParseCoordinates(toks, i + 15))

RECURSIVE ParseRouteList(_, _, _)
RECURSIVE AfterRoute(_, _, _)
AfterRoute(toks, acc, r) ==
  IF ~r.ok THEN ParseFail
  ELSE IF Tk(toks, r.pos) = ","
       THEN ParseRouteList(toks, r.pos + 1, Append(acc, r.val))
  ELSE IF Tk(toks, r.pos) = "]" THEN ParseOk(Append(acc, r.val), r.pos + 1)
  ELSE ParseFail

ParseRouteList(toks, i, acc) == AfterRoute(toks, acc, ParseRoute(toks, i))

ParseRoutes(toks) ==
  IF Tk(toks, 1) # "[" THEN ParseFail
  ELSE IF Tk(toks, 2) = "]" THEN ParseOk(<<>>, 3)
  ELSE ParseRouteList(toks, 2, <<>>)

\* the whole text has to be consumed
WholeText(toks, a) == IF a.ok /\ a.pos = Len(toks) + 1 THEN a ELSE ParseFail

JSONparse(toks) == WholeText(toks, ParseRoutes(toks))

(***************************************************************************)
(* The initial value of communityRoutes (README.md:116-119):               *)
(*   const saved = localStorage.getItem('communityRoutes');                *)
(*   return saved ? JSON.parse(saved) : [];                                *)
(* getItem returns null (no record) or the record's text; null and the     *)
(* empty text are falsy.  threw is TRUE when JSON.parse throws.            *)
(***************************************************************************)
Loaded(p) ==
  IF p.ok THEN [ threw |-> FALSE, routes |-> p.val ]
  ELSE [ threw |-> TRUE, routes |-> <<>> ]

\* a load that reads a key nothing was stored under
loadCommunityRoutes_Empty(record) == [ threw |-> FALSE, routes |-> <<>> ]

loadCommunityRoutes(record) ==
  IF record = NULL \/ record[1] = <<>>
  THEN [ threw |-> FALSE, routes |-> <<>> ]
  ELSE Loaded(JSONparse(record[1]))

(***************************************************************************)
(* Sizes the bounds of the model cap.                                      *)
(***************************************************************************)
RECURSIVE NumPoints(_, _)
NumPoints(routes, i) ==
  IF i > Len(routes) THEN 0
  ELSE Len(routes[i].coordinates) + NumPoints(routes, i + 1)

RECURSIVE NumRatings(_, _)
NumRatings(routes, i) ==
  IF i > Len(routes) THEN 0
  ELSE Len(routes[i].ratings) + NumRatings(routes, i + 1)

PointsHeld == NumPoints(communityRoutes, 1) + Len(newRouteCoords)
RatingsHeld == NumRatings(communityRoutes, 1)

(***************************************************************************)
(* Travel modes (README.md:86, 258) and the duration table (README.md:129, *)
(* 266): for each mode the duration, or nothing when the mode has no key.  *)
(***************************************************************************)
modes == << "car", "bike", "foot" >>
TravelMode == { "car", "bike", "foot" }
NoTimes == [ m \in TravelMode |-> NULL ]
HasTimes(times) == \E m \in TravelMode : times[m] # NULL

(***************************************************************************)
(* Mount: the state after construction, for a given localStorage record.   *)
(* The effect of README.md:133-135 runs after the first render, so it is   *)
(* pending after a successful mount; the position request (README.md:138)  *)
(* is outstanding.                                                         *)
(***************************************************************************)
InitialRecords ==
  { NULL,                                            \* no prior data
    Some(<<>>),                                      \* the empty text
    Some(<< Tok("{") >>),                            \* not JSON
    Some(<< Tok("["), Tok("{"), StrTok(KeyId) >>) }  \* a truncated record

MountedWith(l, routes, pending, threw) ==
  /\ routes = l.routes
  /\ threw = l.threw
  /\ pending = ~l.threw

Mounted(record, routes, pending, threw) ==
  MountedWith(loadCommunityRoutes(record), routes, pending, threw)

Ready == ~crashed /\ ~persistPending /\ ~geoEffect

\* the state after construction in a browser that is online or not
InitOnLine(online) ==
  /\ storage \in InitialRecords
  /\ Mounted(storage, communityRoutes, persistPending, crashed)
  /\ showCommunity = FALSE
  /\ creatingRoute = FALSE
  /\ newRouteCoords = <<>>
  /\ newRouteName = <<>>
  /\ newRouteDesc = <<>>
  /\ selectedCommunityRoute = NULL
  /\ ratingInput = 0
  /\ clickOn = FALSE
  /\ userLocation = NULL
  /\ locationLoading = TRUE
  /\ geoPending = <<>>
  /\ geoEffect = ~crashed
  /\ supported \in BOOLEAN
  /\ positionRequests = 0
  /\ currentAddress = <<>>
  /\ lookups = <<>>
  /\ mapboxToken = <<>>
  /\ showTokenDialog = FALSE
  /\ tokenInput = <<>>
  /\ endPoint = <<>>
  /\ suggestions = <<>>
  /\ suggestionLoading = FALSE
  /\ fetches = <<>>
  /\ travelTimes = NoTimes
  /\ selectedMode = "foot"
  /\ routeLayer = NULL
  /\ mapLayers = {}
  /\ ops = {}
  /\ planCount = 0
  /\ isOfflineMode = ~online
  /\ onLine = online
  /\ draftLayers = {}
  /\ tempLayer = NULL
  /\ selectedLayers = {}
  /\ polyline = NULL
  /\ showTokenInput = FALSE
  /\ MapPage_tokenInput = <<>>
  /\ toast = NoToast
  /\ sent = NoRequest

\* the browser is online when the page is loaded
Init == InitOnLine(TRUE)

\* the browser is online or offline when the page is loaded
InitNet == \E online \in BOOLEAN : InitOnLine(online)

\* the effect without its write: the record keeps its old value
saveCommunityRoutes_KeepRecord ==
  /\ ~crashed
  /\ persistPending
  /\ persistPending' = FALSE
  /\ toast' = NoToast
  /\ sent' = NoRequest
  /\ UNCHANGED << sideVars, communityRoutes, storage, crashed, showCommunity,
                  authoringVars, ratingVars, geoVars, planVars >>

(***************************************************************************)
(* useEffect(() => localStorage.setItem('communityRoutes',                 *)
(*   JSON.stringify(communityRoutes)), [communityRoutes])                  *)
(***************************************************************************)
saveCommunityRoutes ==
  /\ ~crashed
  /\ persistPending
  /\ storage' = Some(JSONstringify(communityRoutes))
  /\ persistPending' = FALSE
  /\ toast' = NoToast
  /\ sent' = NoRequest
  /\ UNCHANGED << sideVars, communityRoutes, crashed, showCommunity,
                  authoringVars, ratingVars, geoVars, planVars >>

(***************************************************************************)
(* The session ends and the page is loaded again: the component is         *)
(* constructed anew from the localStorage record.                          *)
(***************************************************************************)
Reload ==
  /\ ~persistPending
  /\ showCommunity' = FALSE
  /\ creatingRoute' = FALSE
  /\ newRouteCoords' = <<>>
  /\ newRouteName' = <<>>
  /\ newRouteDesc' = <<>>
  /\ selectedCommunityRoute' = NULL
  /\ ratingInput' = 0
  /\ clickOn' = FALSE
  /\ userLocation' = NULL
  /\ locationLoading' = TRUE
  /\ geoPending' = <<>>
  /\ positionRequests' = 0
  /\ currentAddress' = <<>>
  /\ lookups' = <<>>
  /\ endPoint' = <<>>
  /\ suggestions' = <<>>
  /\ suggestionLoading' = FALSE
  /\ fetches' = <<>>
  /\ travelTimes' = NoTimes
  /\ selectedMode' = "foot"
  /\ routeLayer' = NULL
  /\ mapLayers' = {}
  /\ ops' = {}
  /\ toast' = NoToast
  /\ sent' = NoRequest
  /\ Mounted(storage, communityRoutes', persistPending', crashed')
  /\ geoEffect' = ~crashed'
  /\ isOfflineMode' = ~onLine
  /\ draftLayers' = {}
  /\ tempLayer' = NULL
  /\ selectedLayers' = {}
  /\ polyline' = NULL
  /\ UNCHANGED << storage, planCount, supported, tokenVars, onLine,
                  pageVars >>

(***************************************************************************)
(* Location acquisition (README.md:138-173).  The map is created by the    *)
(* effect of README.md:176-207 once userLocation is set; map.current is    *)
(* non-null exactly when userLocation is.                                  *)
(***************************************************************************)
Positions == { <<400007, 500002>> }    \* 4.00007 E, 5.00002 N

\* the error the failure callback is given: GeolocationPositionError.code
PositionErrors == { "PERMISSION_DENIED", "POSITION_UNAVAILABLE", "TIMEOUT" }

mapCurrent == userLocation # NULL

\* README.md:276, 309, 319  [lng, lat] to [lat, lng]
LatLngs(coordinates) ==
  [ i \in 1..Len(coordinates) |-> << coordinates[i][2], coordinates[i][1] >> ]

\* the effect of README.md:305-314 without its cleanup
useEffectDraft_NoCleanup ==
  /\ tempLayer' =
       IF creatingRoute' /\ mapCurrent /\ Len(newRouteCoords') > 1
       THEN Some(LatLngs(newRouteCoords')) ELSE NULL
  /\ draftLayers' =
       draftLayers
       \cup (IF creatingRoute' /\ mapCurrent /\ Len(newRouteCoords') > 1
             THEN { LatLngs(newRouteCoords') } ELSE {})

\* README.md:305-314, run after a step that set creatingRoute or
\* newRouteCoords: the cleanup of the previous run takes its polyline off
\* the map, then the polyline of the points now held is drawn
useEffectDraft ==
  /\ tempLayer' =
       IF creatingRoute' /\ mapCurrent /\ Len(newRouteCoords') > 1
       THEN Some(LatLngs(newRouteCoords')) ELSE NULL
  /\ draftLayers' =
       (IF tempLayer # NULL /\ mapCurrent
        THEN draftLayers \ { tempLayer[1] } ELSE draftLayers)
       \cup (IF creatingRoute' /\ mapCurrent /\ Len(newRouteCoords') > 1
             THEN { LatLngs(newRouteCoords') } ELSE {})

\* the polyline of a community route
RoutePolyline(route) ==
  [ id |-> route.id, latlngs |-> LatLngs(route.coordinates) ]

\* README.md:317-324, run after a step that set selectedCommunityRoute
useEffectSelected ==
  /\ polyline' =
       IF selectedCommunityRoute' # NULL /\ mapCurrent
       THEN Some(RoutePolyline(selectedCommunityRoute'[1])) ELSE NULL
  /\ selectedLayers' =
       (IF polyline # NULL /\ mapCurrent
        THEN selectedLayers \ { polyline[1] } ELSE selectedLayers)
       \cup (IF selectedCommunityRoute' # NULL /\ mapCurrent
             THEN { RoutePolyline(selectedCommunityRoute'[1]) } ELSE {})

Remove(seq, k) == SubSeq(seq, 1, k - 1) \o SubSeq(seq, k + 1, Len(seq))

\* n.toFixed(4) for n >= 0 given in units of 0.00001 (no tie to break: the
\* last digit of n is not 5)
PadLeft(text, width) ==
  [ i \in 1..(width - Len(text)) |-> "0" ] \o text

toFixed4(n) ==
  NumToString(((n + 5) \div 10) \div 10000)
    \o << "." >>
    \o PadLeft(NumToString(((n + 5) \div 10) % 10000), 4)

\* README.md:155  `${coords[1].toFixed(4)}, ${coords[0].toFixed(4)}`
CoordsText(coords) ==
  toFixed4(coords[2]) \o << ",", " " >> \o toFixed4(coords[1])

\* what the reverse geocoder of README.md:148 answers: data, or null
ReverseData ==
  { NULL,
    Some([ display_name |-> <<>> ]),
    Some([ display_name |-> << "H", "o", "m", "e" >> ]) }

ReverseRequest(coords) == Request("reverse", <<>>, "", coords, <<>>)

\* README.md:138-140, 170-173: the effect, run once after the mount
useEffectGeolocation ==
  /\ ~crashed
  /\ ~persistPending
  /\ geoEffect
  /\ geoEffect' = FALSE
  /\ IF supported
     THEN /\ geoPending' = Append(geoPending, mapboxToken)
          /\ positionRequests' = positionRequests + 1
          /\ UNCHANGED locationLoading
     ELSE /\ locationLoading' = FALSE
          /\ UNCHANGED << geoPending, positionRequests >>
  /\ toast' = NoToast
  /\ sent' = NoRequest
  /\ UNCHANGED << sideVars, communityVars, planVars, userLocation, supported,
                  currentAddress, lookups, tokenVars >>

\* README.md:141-150, up to the fetch of the reverse lookup
getCurrentPositionSuccess(coords) ==
  /\ Ready
  /\ geoPending # <<>>
  /\ geoPending' = Tail(geoPending)
  /\ userLocation' = Some(coords)
  /\ locationLoading' = FALSE
  /\ lookups' = Append(lookups, coords)
  /\ toast' = NoToast
  /\ sent' = { ReverseRequest(coords) }
  /\ UNCHANGED << sideVars, communityVars, planVars, geoEffect, supported,
                  positionRequests, currentAddress, tokenVars >>

\* the failure callback without its setLocationLoading(false)
getCurrentPositionError_KeepLoading(error) ==
  /\ Ready
  /\ geoPending # <<>>
  /\ geoPending' = Tail(geoPending)
  /\ toast' = "Location Access"
  /\ sent' = NoRequest
  /\ UNCHANGED << sideVars, communityVars, planVars, userLocation,
                  locationLoading, geoEffect, supported, positionRequests,
                  currentAddress, lookups, tokenVars >>

\* README.md:161-168
getCurrentPositionError(error) ==
  /\ Ready
  /\ geoPending # <<>>
  /\ geoPending' = Tail(geoPending)
  /\ locationLoading' = FALSE
  /\ toast' = "Location Access"
  /\ sent' = NoRequest
  /\ UNCHANGED << sideVars, communityVars, planVars, userLocation, geoEffect,
                  supported, positionRequests, currentAddress, lookups,
                  tokenVars >>

\* README.md:151-156: the response to the k-th outstanding lookup
reverseResolved(k, data) ==
  /\ Ready
  /\ k \in 1..Len(lookups)
  /\ lookups' = Remove(lookups, k)
  /\ currentAddress' =
       IF data # NULL /\ data[1].display_name # <<>>
       THEN data[1].display_name
       ELSE CoordsText(lookups[k])
  /\ toast' = NoToast
  /\ sent' = NoRequest
  /\ UNCHANGED << sideVars, communityVars, planVars, userLocation,
                  locationLoading, geoPending, geoEffect, supported,
                  positionRequests, tokenVars >>

\* README.md:157-159: the fetch of the k-th outstanding lookup rejects
reverseRejected(k) ==
  /\ Ready
  /\ k \in 1..Len(lookups)
  /\ lookups' = Remove(lookups, k)
  /\ currentAddress' = CoordsText(lookups[k])
  /\ toast' = NoToast
  /\ sent' = NoRequest
  /\ UNCHANGED << sideVars, communityVars, planVars, userLocation,
                  locationLoading, geoPending, geoEffect, supported,
                  positionRequests, tokenVars >>

\* README.md:516  {currentAddress || `${lat.toFixed(4)}, ${lng.toFixed(4)}`}
displayedAddress ==
  IF currentAddress # <<>> THEN currentAddress
  ELSE CoordsText(userLocation[1])

(***************************************************************************)
(* Location acquisition of the Mapbox version (src/unnamed/part_000).      *)
(* The component takes mapboxToken and onTokenSet as props.  Its effect of *)
(* part_000:28-66 is the one of README.md:138-173 with the dependency list *)
(* [mapboxToken]: useEffectGeolocation models both, and geoEffect is set   *)
(* again when the prop changes.  onTokenSet is taken to be what the token  *)
(* dialog is made for: the parent keeps the token and passes it back as    *)
(* mapboxToken.  The state of the Leaflet version only is left as Init     *)
(* has it for an absent record.                                            *)
(***************************************************************************)
Tokens == { <<>>, << "t" >> }                  \* mapboxToken at the mount
TokenTexts ==                                  \* typed in the dialog
  { <<>>, << " " >>, << "k" >>, << " ", "k" >>, << "k", " " >>, << "j" >> }

TwoPositions == { <<400007, 500002>>, <<600004, 700008>> }

RECURSIVE TrimStart(_)
TrimStart(text) ==
  IF text # <<>> /\ Head(text) = " " THEN TrimStart(Tail(text)) ELSE text

RECURSIVE TrimEnd(_)
TrimEnd(text) ==
  IF text # <<>> /\ text[Len(text)] = " "
  THEN TrimEnd(SubSeq(text, 1, Len(text) - 1))
  ELSE text

\* String.prototype.trim, for the space character
trim(text) == TrimEnd(TrimStart(text))

\* what the reverse geocoder of part_000:39 answers: data, or null
MapboxReverseData ==
  { NULL,
    Some([ features |-> <<>> ]),
    Some([ features |-> << [ place_name |-> << "H", "o", "m", "e" >> ] >> ]) }

MapboxReverseRequest(coords, token) ==
  Request("reverse", token, "", coords, <<>>)

\* the state when MapPage (mounted FALSE: the token screen of MapPage.tsx:26
\* is shown and MapInterface is not rendered yet) or MapInterface with the
\* prop mapboxToken = token (mounted TRUE) is constructed
MountMapbox(token, mounted) ==
  /\ storage = NULL
  /\ communityRoutes = <<>>
  /\ persistPending = FALSE
  /\ crashed = FALSE
  /\ showCommunity = FALSE
  /\ creatingRoute = FALSE
  /\ newRouteCoords = <<>>
  /\ newRouteName = <<>>
  /\ newRouteDesc = <<>>
  /\ selectedCommunityRoute = NULL
  /\ ratingInput = 0
  /\ clickOn = FALSE
  /\ userLocation = NULL
  /\ locationLoading = TRUE
  /\ geoPending = <<>>
  /\ geoEffect = mounted
  /\ supported \in BOOLEAN
  /\ positionRequests = 0
  /\ currentAddress = <<>>
  /\ lookups = <<>>
  /\ mapboxToken = token
  /\ showTokenDialog = FALSE
  /\ tokenInput = <<>>
  /\ endPoint = <<>>
  /\ suggestions = <<>>
  /\ suggestionLoading = FALSE
  /\ fetches = <<>>
  /\ travelTimes = NoTimes
  /\ selectedMode = "foot"
  /\ routeLayer = NULL
  /\ mapLayers = {}
  /\ ops = {}
  /\ planCount = 0
  /\ isOfflineMode = FALSE
  /\ onLine = TRUE
  /\ draftLayers = {}
  /\ tempLayer = NULL
  /\ selectedLayers = {}
  /\ polyline = NULL
  /\ showTokenInput = ~mounted
  /\ MapPage_tokenInput = <<>>
  /\ toast = NoToast
  /\ sent = NoRequest

\* MapInterface rendered on its own, with or without a token
InitMapbox == \E token \in Tokens : MountMapbox(token, TRUE)

\* MapPage.tsx:9-11
InitPage == MountMapbox(<<>>, FALSE)

\* part_000:31-52, up to the fetch of the reverse lookup; the callback of
\* the k-th outstanding request, which closed over the token geoPending[k]
getCurrentPositionSuccessMapbox(k, coords) ==
  /\ ~geoEffect
  /\ k \in 1..Len(geoPending)
  /\ geoPending' = Remove(geoPending, k)
  /\ userLocation' = Some(coords)
  /\ locationLoading' = FALSE
  /\ IF geoPending[k] # <<>>
     THEN /\ lookups' = Append(lookups, coords)
          /\ sent' = { MapboxReverseRequest(coords, geoPending[k]) }
          /\ UNCHANGED currentAddress
     ELSE /\ currentAddress' = CoordsText(coords)
          /\ sent' = NoRequest
          /\ UNCHANGED lookups
  /\ toast' = NoToast
  /\ UNCHANGED << sideVars, communityVars, planVars, geoEffect, supported,
                  positionRequests, tokenVars >>

\* part_000:53-61
getCurrentPositionErrorMapbox(k, error) ==
  /\ ~geoEffect
  /\ k \in 1..Len(geoPending)
  /\ geoPending' = Remove(geoPending, k)
  /\ locationLoading' = FALSE
  /\ toast' = "Location Access"
  /\ sent' = NoRequest
  /\ UNCHANGED << sideVars, communityVars, planVars, userLocation, geoEffect,
                  supported, positionRequests, currentAddress, lookups,
                  tokenVars >>

\* part_000:42-45: the response to the k-th outstanding lookup; data.features
\* of null throws, and the catch of part_000:46-48 only logs
reverseResolvedMapbox(k, data) ==
  /\ ~geoEffect
  /\ k \in 1..Len(lookups)
  /\ lookups' = Remove(lookups, k)
  /\ currentAddress' =
       IF data # NULL /\ Len(data[1].features) > 0
       THEN data[1].features[1].place_name
       ELSE currentAddress
  /\ toast' = NoToast
  /\ sent' = NoRequest
  /\ UNCHANGED << sideVars, communityVars, planVars, userLocation,
                  locationLoading, geoPending, geoEffect, supported,
                  positionRequests, tokenVars >>

\* part_000:46-48: the fetch of the k-th outstanding lookup rejects
reverseRejectedMapbox(k) ==
  /\ ~geoEffect
  /\ k \in 1..Len(lookups)
  /\ lookups' = Remove(lookups, k)
  /\ toast' = NoToast
  /\ sent' = NoRequest
  /\ UNCHANGED << sideVars, communityVars, planVars, userLocation,
                  locationLoading, geoPending, geoEffect, supported,
                  positionRequests, currentAddress, tokenVars >>

\* part_000:205-215: the Setup Maps button, in the location card
handleSetupMaps ==
  /\ ~geoEffect
  /\ userLocation # NULL /\ ~locationLoading
  /\ mapboxToken = <<>>
  /\ ~showTokenDialog
  /\ showTokenDialog' = TRUE
  /\ toast' = NoToast
  /\ sent' = NoRequest
  /\ UNCHANGED << sideVars, communityVars, planVars, userLocation,
                  locationLoading, geoPending, geoEffect, supported,
                  positionRequests, currentAddress, lookups, mapboxToken,
                  tokenInput >>

\* part_000:302-308
CloseTokenDialog ==
  /\ ~geoEffect
  /\ showTokenDialog
  /\ showTokenDialog' = FALSE
  /\ toast' = NoToast
  /\ sent' = NoRequest
  /\ UNCHANGED << sideVars, communityVars, planVars, userLocation,
                  locationLoading, geoPending, geoEffect, supported,
                  positionRequests, currentAddress, lookups, mapboxToken,
                  tokenInput >>

\* part_000:315-322
ChangeTokenInput(text) ==
  /\ ~geoEffect
  /\ showTokenDialog
  /\ text # tokenInput
  /\ tokenInput' = text
  /\ toast' = NoToast
  /\ sent' = NoRequest
  /\ UNCHANGED << sideVars, communityVars, planVars, userLocation,
                  locationLoading, geoPending, geoEffect, supported,
                  positionRequests, currentAddress, lookups, mapboxToken,
                  showTokenDialog >>

\* part_000:152-161, called by the button of part_000:323-329 or by the
\* Enter key (part_000:320); the effect of part_000:28-66 is due again when
\* the render that follows has another mapboxToken
handleTokenSubmit ==
  /\ ~geoEffect
  /\ showTokenDialog
  /\ IF trim(tokenInput) # <<>>
     THEN /\ mapboxToken' = trim(tokenInput)
          /\ geoEffect' = (trim(tokenInput) # mapboxToken)
          /\ showTokenDialog' = FALSE
          /\ toast' = "Map Enhanced"
     ELSE /\ toast' = NoToast
          /\ UNCHANGED << mapboxToken, geoEffect, showTokenDialog >>
  /\ sent' = NoRequest
  /\ UNCHANGED << sideVars, communityVars, planVars, userLocation,
                  locationLoading, geoPending, supported, positionRequests,
                  currentAddress, lookups, tokenInput >>

(***************************************************************************)
(* MapPage (MapPage.tsx:8-86): the token screen, then MapInterface with    *)
(* the token as its prop mapboxToken and no onTokenSet.  MapInterface is   *)
(* mounted by the render that follows the accepted token; its position     *)
(* effect is then due.                                                     *)
(***************************************************************************)
Keys == { "Enter", "k" }

\* MapPage.tsx:26, 85
MapInterfaceShown == ~showTokenInput

\* MapPage.tsx:53
MapPage_ChangeTokenInput(text) ==
  /\ showTokenInput
  /\ text # MapPage_tokenInput
  /\ MapPage_tokenInput' = text
  /\ toast' = NoToast
  /\ sent' = NoRequest
  /\ UNCHANGED << netVars, layerVars, showTokenInput, communityVars, geoVars,
                  planVars >>

\* handleTokenSubmit of MapPage storing the text as typed
MapPage_handleTokenSubmit_NoTrim ==
  /\ IF trim(MapPage_tokenInput) # <<>>
     THEN /\ mapboxToken' = MapPage_tokenInput
          /\ showTokenInput' = FALSE
          /\ geoEffect' = TRUE
          /\ isOfflineMode' = ~onLine
     ELSE UNCHANGED << mapboxToken, showTokenInput, geoEffect,
                       isOfflineMode >>
  /\ toast' = NoToast
  /\ sent' = NoRequest
  /\ UNCHANGED << onLine, layerVars, MapPage_tokenInput, communityVars,
                  planVars, userLocation, locationLoading, geoPending,
                  supported, positionRequests, currentAddress, lookups,
                  showTokenDialog, tokenInput >>

\* MapPage.tsx:13-18; the render that follows mounts MapInterface, whose
\* isOfflineMode starts as !navigator.onLine (part_000:22)
MapPage_handleTokenSubmit ==
  /\ IF trim(MapPage_tokenInput) # <<>>
     THEN /\ mapboxToken' = trim(MapPage_tokenInput)
          /\ showTokenInput' = FALSE
          /\ geoEffect' = TRUE
          /\ isOfflineMode' = ~onLine
     ELSE UNCHANGED << mapboxToken, showTokenInput, geoEffect,
                       isOfflineMode >>
  /\ toast' = NoToast
  /\ sent' = NoRequest
  /\ UNCHANGED << onLine, layerVars, MapPage_tokenInput, communityVars,
                  planVars, userLocation, locationLoading, geoPending,
                  supported, positionRequests, currentAddress, lookups,
                  showTokenDialog, tokenInput >>

\* MapPage.tsx:57-63: the Start Navigation button, disabled while the
\* trimmed text is empty
ClickStartNavigation ==
  /\ showTokenInput
  /\ trim(MapPage_tokenInput) # <<>>
  /\ MapPage_handleTokenSubmit

\* MapPage.tsx:20-24, 54: a key pressed in the token field
handleKeyPress(key) ==
  /\ showTokenInput
  /\ IF key = "Enter"
     THEN MapPage_handleTokenSubmit
     ELSE /\ toast' = NoToast
          /\ sent' = NoRequest
          /\ UNCHANGED << sideVars, communityVars, geoVars, planVars >>

(***************************************************************************)
(* Connectivity (README.md:106, 193-203).  The listeners for the window's  *)
(* online and offline events are added by the effect that creates the map  *)
(* and removed by its cleanup: they are registered exactly when map.current *)
(* is non-null.  The browser raises an event when navigator.onLine changes. *)
(***************************************************************************)
\* README.md:193
handleOnline == isOfflineMode' = FALSE

\* README.md:194
handleOffline == isOfflineMode' = TRUE

\* the window's online event
WindowOnline ==
  /\ ~onLine
  /\ onLine' = TRUE
  /\ IF mapCurrent THEN handleOnline ELSE UNCHANGED isOfflineMode
  /\ toast' = NoToast
  /\ sent' = NoRequest
  /\ UNCHANGED << communityVars, geoVars, planVars, layerVars, pageVars >>

\* the window's offline event
WindowOffline ==
  /\ onLine
  /\ onLine' = FALSE
  /\ IF mapCurrent THEN handleOffline ELSE UNCHANGED isOfflineMode
  /\ toast' = NoToast
  /\ sent' = NoRequest
  /\ UNCHANGED << communityVars, geoVars, planVars, layerVars, pageVars >>

\* handleCurrentLocation forgetting the position before it centres the map
handleCurrentLocation_Forget ==
  /\ Ready
  /\ userLocation' = NULL
  /\ toast' = NoToast
  /\ sent' = NoRequest
  /\ UNCHANGED << communityVars, planVars, sideVars, locationLoading,
                  geoPending, geoEffect, supported, positionRequests,
                  currentAddress, lookups, tokenVars >>

\* README.md:361-368, 609-619: the Center Map button; setView and
\* openPopup move the view of the map and change no state
handleCurrentLocation ==
  /\ Ready
  /\ toast' = NoToast
  /\ sent' = NoRequest
  /\ UNCHANGED << communityVars, geoVars, planVars, sideVars >>

(***************************************************************************)
(* Community routes modal (README.md:413-444).                             *)
(***************************************************************************)
OpenCommunity ==
  /\ Ready
  /\ ~showCommunity
  /\ showCommunity' = TRUE
  /\ toast' = NoToast
  /\ sent' = NoRequest
  /\ UNCHANGED << sideVars, communityRoutes, storage, persistPending, crashed,
                  authoringVars, ratingVars, geoVars, planVars >>

CloseCommunity ==
  /\ Ready
  /\ showCommunity
  /\ showCommunity' = FALSE
  /\ toast' = NoToast
  /\ sent' = NoRequest
  /\ UNCHANGED << sideVars, communityRoutes, storage, persistPending, crashed,
                  authoringVars, ratingVars, geoVars, planVars >>

\* README.md:427; the effect of README.md:293-302 turns the map click
\* listener on when creatingRoute becomes true and the map exists.
ClickCreateRoute ==
  /\ Ready
  /\ showCommunity
  /\ creatingRoute' = TRUE
  /\ showCommunity' = FALSE
  /\ clickOn' = IF creatingRoute THEN clickOn ELSE mapCurrent
  /\ toast' = NoToast
  /\ sent' = NoRequest
  /\ UNCHANGED << netVars, pageVars, selectedLayers, polyline,
                  communityRoutes, storage, persistPending, crashed,
                  newRouteCoords, newRouteName, newRouteDesc, ratingVars,
                  geoVars, planVars >>
  /\ useEffectDraft

\* README.md:295-297
handleClick(lnglat) ==
  /\ Ready
  /\ clickOn
  /\ PointsHeld < MaxPoints
  /\ newRouteCoords' = Append(newRouteCoords, lnglat)
  /\ toast' = NoToast
  /\ sent' = NoRequest
  /\ UNCHANGED << netVars, pageVars, selectedLayers, polyline,
                  communityRoutes, storage, persistPending, crashed,
                  showCommunity, creatingRoute, newRouteName, newRouteDesc,
                  clickOn, ratingVars, geoVars, planVars >>
  /\ useEffectDraft

\* a click on the map while the listener of README.md:295-298 is not on:
\* the map has no handler for it
MapClickUnheard(lnglat) ==
  /\ Ready
  /\ mapCurrent
  /\ ~clickOn
  /\ toast' = NoToast
  /\ sent' = NoRequest
  /\ UNCHANGED << sideVars, communityVars, geoVars, planVars >>

\* README.md:453-458
ChangeRouteName(text) ==
  /\ Ready
  /\ creatingRoute
  /\ text # newRouteName
  /\ newRouteName' = text
  /\ toast' = NoToast
  /\ sent' = NoRequest
  /\ UNCHANGED << sideVars, communityRoutes, storage, persistPending, crashed,
                  showCommunity, creatingRoute, newRouteCoords, newRouteDesc,
                  clickOn, ratingVars, geoVars, planVars >>

\* README.md:459-464
ChangeRouteDesc(text) ==
  /\ Ready
  /\ creatingRoute
  /\ text # newRouteDesc
  /\ newRouteDesc' = text
  /\ toast' = NoToast
  /\ sent' = NoRequest
  /\ UNCHANGED << sideVars, communityRoutes, storage, persistPending, crashed,
                  showCommunity, creatingRoute, newRouteCoords, newRouteName,
                  clickOn, ratingVars, geoVars, planVars >>

\* README.md:450
CancelCreateRoute ==
  /\ Ready
  /\ creatingRoute
  /\ creatingRoute' = FALSE
  /\ newRouteCoords' = <<>>
  /\ clickOn' = FALSE
  /\ toast' = NoToast
  /\ sent' = NoRequest
  /\ UNCHANGED << netVars, pageVars, selectedLayers, polyline,
                  communityRoutes, storage, persistPending, crashed,
                  showCommunity, newRouteName, newRouteDesc, ratingVars,
                  geoVars, planVars >>
  /\ useEffectDraft

\* handleSaveRoute without the validation of README.md:328-331
handleSaveRoute_NoValidation(now) ==
  /\ communityRoutes' =
       Append(communityRoutes,
              RouteType(NumToString(now), newRouteName, newRouteDesc,
                        newRouteCoords, <<>>))
  /\ persistPending' = TRUE
  /\ creatingRoute' = FALSE
  /\ newRouteCoords' = <<>>
  /\ newRouteName' = <<>>
  /\ newRouteDesc' = <<>>
  /\ clickOn' = FALSE
  /\ toast' = "Route saved!"
  /\ sent' = NoRequest
  /\ UNCHANGED << netVars, pageVars, selectedLayers, polyline, storage,
                  crashed, showCommunity, ratingVars, geoVars, planVars >>
  /\ useEffectDraft

\* handleSaveRoute with [newRoute, ...prev] in place of [...prev, newRoute]
handleSaveRoute_Prepend(now) ==
  IF newRouteName = <<>> \/ Len(newRouteCoords) < 2
  THEN /\ toast' = "Route creation"
       /\ sent' = NoRequest
       /\ UNCHANGED << sideVars, communityVars, geoVars, planVars >>
  ELSE /\ communityRoutes' =
            << RouteType(NumToString(now), newRouteName, newRouteDesc,
                         newRouteCoords, <<>>) >> \o communityRoutes
       /\ persistPending' = TRUE
       /\ creatingRoute' = FALSE
       /\ newRouteCoords' = <<>>
       /\ newRouteName' = <<>>
       /\ newRouteDesc' = <<>>
       /\ clickOn' = FALSE
       /\ toast' = "Route saved!"
       /\ sent' = NoRequest
       /\ UNCHANGED << netVars, pageVars, selectedLayers, polyline, storage,
                       crashed, showCommunity, ratingVars, geoVars,
                       planVars >>
       /\ useEffectDraft

\* README.md:327-347; now is the value Date.now() returns
handleSaveRoute(now) ==
  IF newRouteName = <<>> \/ Len(newRouteCoords) < 2
  THEN /\ toast' = "Route creation"
       /\ sent' = NoRequest
       /\ UNCHANGED << sideVars, communityVars, geoVars, planVars >>
  ELSE /\ communityRoutes' =
            Append(communityRoutes,
                   RouteType(NumToString(now), newRouteName, newRouteDesc,
                             newRouteCoords, <<>>))
       /\ persistPending' = TRUE
       /\ creatingRoute' = FALSE
       /\ newRouteCoords' = <<>>
       /\ newRouteName' = <<>>
       /\ newRouteDesc' = <<>>
       /\ clickOn' = FALSE
       /\ toast' = "Route saved!"
       /\ sent' = NoRequest
       /\ UNCHANGED << netVars, pageVars, selectedLayers, polyline, storage,
                       crashed, showCommunity, ratingVars, geoVars,
                       planVars >>
       /\ useEffectDraft

\* README.md:468  disabled={newRouteCoords.length < 2 || !newRouteName}
SaveRouteDisabled == Len(newRouteCoords) < 2 \/ newRouteName = <<>>

ClickSaveRoute ==
  /\ Ready
  /\ creatingRoute
  /\ ~SaveRouteDisabled
  /\ \E now \in Times : handleSaveRoute(now)

(***************************************************************************)
(* Rating (README.md:437-438, 474-492, 350-359).                           *)
(***************************************************************************)
ClickView(i) ==
  /\ Ready
  /\ showCommunity
  /\ selectedCommunityRoute' = Some(communityRoutes[i])
  /\ showCommunity' = FALSE
  /\ toast' = NoToast
  /\ sent' = NoRequest
  /\ UNCHANGED << netVars, pageVars, draftLayers, tempLayer, communityRoutes,
                  storage, persistPending, crashed, authoringVars,
                  ratingInput, geoVars, planVars >>
  /\ useEffectSelected

ClickRate(i) ==
  /\ Ready
  /\ showCommunity
  /\ selectedCommunityRoute # Some(communityRoutes[i])
  /\ selectedCommunityRoute' = Some(communityRoutes[i])
  /\ toast' = NoToast
  /\ sent' = NoRequest
  /\ UNCHANGED << netVars, pageVars, draftLayers, tempLayer, communityRoutes,
                  storage, persistPending, crashed, showCommunity,
                  authoringVars, ratingInput, geoVars, planVars >>
  /\ useEffectSelected

ClickStar(star) ==
  /\ Ready
  /\ selectedCommunityRoute # NULL
  /\ star # ratingInput
  /\ ratingInput' = star
  /\ toast' = NoToast
  /\ sent' = NoRequest
  /\ UNCHANGED << sideVars, communityRoutes, storage, persistPending, crashed,
                  showCommunity, authoringVars, selectedCommunityRoute,
                  geoVars, planVars >>

CloseRate ==
  /\ Ready
  /\ selectedCommunityRoute # NULL
  /\ selectedCommunityRoute' = NULL
  /\ toast' = NoToast
  /\ sent' = NoRequest
  /\ UNCHANGED << netVars, pageVars, draftLayers, tempLayer, communityRoutes,
                  storage, persistPending, crashed, showCommunity,
                  authoringVars, ratingInput, geoVars, planVars >>
  /\ useEffectSelected

\* handleRateRoute with ratings: [rating] in place of [...r.ratings, rating]
handleRateRoute_Replace(route, rating) ==
  /\ communityRoutes' =
       [ i \in 1..Len(communityRoutes) |->
           IF communityRoutes[i].id = route.id
           THEN [ communityRoutes[i] EXCEPT !.ratings = << rating >> ]
           ELSE communityRoutes[i] ]
  /\ persistPending' = TRUE
  /\ selectedCommunityRoute' = NULL
  /\ ratingInput' = 0
  /\ toast' = "Thank you!"
  /\ sent' = NoRequest
  /\ UNCHANGED << netVars, pageVars, draftLayers, tempLayer, storage, crashed,
                  showCommunity, authoringVars, geoVars, planVars >>
  /\ useEffectSelected

\* README.md:350-359
handleRateRoute(route, rating) ==
  /\ communityRoutes' =
       [ i \in 1..Len(communityRoutes) |->
           IF communityRoutes[i].id = route.id
           THEN [ communityRoutes[i] EXCEPT !.ratings = Append(@, rating) ]
           ELSE communityRoutes[i] ]
  /\ persistPending' = TRUE
  /\ selectedCommunityRoute' = NULL
  /\ ratingInput' = 0
  /\ toast' = "Thank you!"
  /\ sent' = NoRequest
  /\ UNCHANGED << netVars, pageVars, draftLayers, tempLayer, storage, crashed,
                  showCommunity, authoringVars, geoVars, planVars >>
  /\ useEffectSelected

\* the Submit button without its disabled attribute
SubmitRatingDisabled_Never == FALSE

\* README.md:489  disabled={ratingInput === 0}
SubmitRatingDisabled == ratingInput = 0

ClickSubmitRating ==
  /\ Ready
  /\ selectedCommunityRoute # NULL
  /\ ~SubmitRatingDisabled
  /\ RatingsHeld
       + Cardinality({ i \in 1..Len(communityRoutes) :
                         communityRoutes[i].id = selectedCommunityRoute[1].id })
       <= MaxRatings
  /\ handleRateRoute(selectedCommunityRoute[1], ratingInput)

(***************************************************************************)
(* Route planning (README.md:224-290, 522-580).                            *)
(*                                                                         *)
(* A call of handleRouteCalculation runs up to its first await in one      *)
(* step; each later step is the arrival of the response it awaits.  The    *)
(* call keeps the values of the render it was made in (mode, userLocation, *)
(* endPoint, routeLayer); it is an element of ops while it awaits:         *)
(*   stage 0 awaits the geocode response, stage k in 1..3 the route        *)
(*   response for modes[k].                                                *)
(***************************************************************************)
MaxPlans == 2       \* cap on the calls that send a request

Texts == { <<>>, <<"X">> }                   \* texts typed as destination
Durations == { 125 }                         \* durations the router returns

\* README.md:259-263
modeProfile == [ car |-> "driving", bike |-> "bike", foot |-> "foot" ]

GeocodeRequest(q) == Request("geocode", q, "", <<>>, <<>>)
RouteRequest(m, from, to) == Request("route", <<>>, modeProfile[m], from, to)

\* parseFloat of a text of decimal digits
DigitValue(ch) == CHOOSE d \in 0..9 : DigitChar[d + 1] = ch

RECURSIVE parseFloat(_)
parseFloat(text) ==
  IF Len(text) = 1 THEN DigitValue(text[1])
  ELSE 10 * parseFloat(SubSeq(text, 1, Len(text) - 1))
       + DigitValue(text[Len(text)])

\* what the geocoder answers: a list of candidates with lon and lat as texts
GeocodeData == { <<>>, << [ lon |-> <<"6">>, lat |-> <<"1", "7">> ] >> }

\* what the router answers for a request from a to b: a list of routes
RouteData(a, b) ==
  { [ routes |-> <<>> ] }
  \cup { [ routes |-> << [ duration |-> d, coordinates |-> << a, b >> ] >> ] :
           d \in Durations }

ToastNoLocationOrDestination ==
  "Route Planning: Could not determine your location or destination."
ToastDestinationNotFound ==
  "Route Planning: Could not find the destination."

\* handleRouteCalculation without the check of README.md:238-245
handleRouteCalculation_NoPrecondition(mode) ==
  /\ selectedMode' = mode
  /\ travelTimes' = NoTimes
  /\ ops' = ops \cup { [ id |-> planCount + 1,
                         mode |-> mode,
                         from |-> IF userLocation = NULL THEN <<>>
                                  ELSE userLocation[1],
                         query |-> endPoint,
                         layer |-> routeLayer,
                         stage |-> 0,
                         dest |-> <<>>,
                         times |-> NoTimes ] }
  /\ planCount' = planCount + 1
  /\ sent' = { GeocodeRequest(endPoint) }
  /\ toast' = NoToast
  /\ UNCHANGED << sideVars, communityVars, geoVars, endPoint, suggestVars,
                  routeLayer, mapLayers >>

\* README.md:235-247, up to the fetch of geocode(endPoint)
handleRouteCalculation(mode) ==
  /\ selectedMode' = mode
  /\ travelTimes' = NoTimes
  /\ IF userLocation = NULL \/ endPoint = <<>>
     THEN /\ toast' = ToastNoLocationOrDestination
          /\ sent' = NoRequest
          /\ UNCHANGED << ops, planCount >>
     ELSE /\ ops' = ops \cup { [ id |-> planCount + 1,
                                 mode |-> mode,
                                 from |-> userLocation[1],
                                 query |-> endPoint,
                                 layer |-> routeLayer,
                                 stage |-> 0,
                                 dest |-> <<>>,
                                 times |-> NoTimes ] }
          /\ planCount' = planCount + 1
          /\ sent' = { GeocodeRequest(endPoint) }
          /\ toast' = NoToast
  /\ UNCHANGED << sideVars, communityVars, geoVars, endPoint, suggestVars,
                  routeLayer, mapLayers >>

\* the location card (README.md:495) is rendered
CardShown == userLocation # NULL /\ ~locationLoading

CanPlan == userLocation = NULL \/ endPoint = <<>> \/ planCount < MaxPlans

(***************************************************************************)
(* Destination autocomplete (README.md:210-221, 523-545).  Each change of  *)
(* the destination field calls fetchSuggestions, which runs up to its      *)
(* fetch in the same step; the response is a later step.  The lookup       *)
(* service knows a list of places for a query and answers with the first   *)
(* limit of them, limit being the parameter of the request.                *)
(***************************************************************************)
MaxFetches == 2     \* cap on the autocomplete requests outstanding

\* the limit=5 of the URL of README.md:216
SuggestionLimit == 5

\* the request without the limit parameter: the service's default applies
SearchRequest_NoLimit(query) ==
  [ kind |-> "search", q |-> query, limit |-> 10 ]

\* README.md:216
SearchRequest(query) ==
  [ kind |-> "search", q |-> query, limit |-> SuggestionLimit ]

\* the i-th place the service knows for a query
Place(query, i) ==
  [ place_id |-> i, display_name |-> query \o NumToString(i) ]

\* the lists of places the service may know for a query: none, one, or
\* more than any limit the requests carry
Places(query) ==
  { [ i \in 1..n |-> Place(query, i) ] : n \in { 0, 1, 12 } }

Take(list, n) == SubSeq(list, 1, IF Len(list) < n THEN Len(list) ELSE n)

\* what the service answers to a request
SearchData(request) ==
  { Take(places, request.limit) : places \in Places(request.q) }

\* fetchSuggestions without the check of README.md:211-214
fetchSuggestions_NoEmptyCheck(query) ==
  /\ suggestionLoading' = TRUE
  /\ fetches' = Append(fetches, SearchRequest(query))
  /\ sent' = { SearchRequest(query) }
  /\ UNCHANGED suggestions

\* README.md:210-217, up to the fetch
fetchSuggestions(query) ==
  IF query = <<>>
  THEN /\ suggestions' = <<>>
       /\ sent' = NoRequest
       /\ UNCHANGED << suggestionLoading, fetches >>
  ELSE /\ suggestionLoading' = TRUE
       /\ fetches' = Append(fetches, SearchRequest(query))
       /\ sent' = { SearchRequest(query) }
       /\ UNCHANGED suggestions

\* README.md:523-531
ChangeDestination(text) ==
  /\ Ready
  /\ CardShown
  /\ text # endPoint
  /\ text = <<>> \/ Len(fetches) < MaxFetches
  /\ endPoint' = text
  /\ fetchSuggestions(text)
  /\ toast' = NoToast
  /\ UNCHANGED << sideVars, communityVars, geoVars, travelTimes, selectedMode,
                  routeLayer, mapLayers, ops, planCount >>

\* suggestionsResolved applying the response only when it answers the
\* present destination text
suggestionsResolved_LatestOnly(k, data) ==
  /\ Ready
  /\ k \in 1..Len(fetches)
  /\ fetches' = Remove(fetches, k)
  /\ suggestions' = IF fetches[k].q = endPoint THEN data ELSE suggestions
  /\ suggestionLoading' = FALSE
  /\ toast' = NoToast
  /\ sent' = NoRequest
  /\ UNCHANGED << sideVars, communityVars, geoVars, endPoint, travelTimes,
                  selectedMode, routeLayer, mapLayers, ops, planCount >>

\* README.md:217-220: the response to the k-th outstanding request
suggestionsResolved(k, data) ==
  /\ Ready
  /\ k \in 1..Len(fetches)
  /\ fetches' = Remove(fetches, k)
  /\ suggestions' = data
  /\ suggestionLoading' = FALSE
  /\ toast' = NoToast
  /\ sent' = NoRequest
  /\ UNCHANGED << sideVars, communityVars, geoVars, endPoint, travelTimes,
                  selectedMode, routeLayer, mapLayers, ops, planCount >>

\* README.md:217: the fetch of the k-th outstanding request rejects; the
\* exception leaves fetchSuggestions and the onChange handler
suggestionsRejected(k) ==
  /\ Ready
  /\ k \in 1..Len(fetches)
  /\ fetches' = Remove(fetches, k)
  /\ toast' = NoToast
  /\ sent' = NoRequest
  /\ UNCHANGED << sideVars, communityVars, geoVars, endPoint, suggestions,
                  suggestionLoading, travelTimes, selectedMode, routeLayer,
                  mapLayers, ops, planCount >>

\* README.md:535-543: a click on the i-th suggestion shown
ClickSuggestion(i) ==
  /\ Ready
  /\ CardShown
  /\ i \in 1..Len(suggestions)
  /\ endPoint' = suggestions[i].display_name
  /\ suggestions' = <<>>
  /\ toast' = NoToast
  /\ sent' = NoRequest
  /\ UNCHANGED << sideVars, communityVars, geoVars, suggestionLoading,
                  fetches, travelTimes, selectedMode, routeLayer, mapLayers,
                  ops, planCount >>

\* README.md:556  disabled={locationLoading || !endPoint}
PlanRouteDisabled == locationLoading \/ endPoint = <<>>

\* README.md:552-560
ClickPlanRoute ==
  /\ Ready
  /\ CardShown
  /\ ~PlanRouteDisabled
  /\ CanPlan
  /\ handleRouteCalculation(selectedMode)

\* README.md:564-578
ClickMode(mode) ==
  /\ Ready
  /\ CardShown
  /\ HasTimes(travelTimes)
  /\ CanPlan
  /\ handleRouteCalculation(mode)

\* README.md:224-232 and 247-255: the geocode response has arrived
geocodeResolved(op, data) ==
  /\ Ready
  /\ op \in ops
  /\ op.stage = 0
  /\ IF Len(data) > 0
     THEN /\ ops' = (ops \ { op })
                    \cup { [ op EXCEPT
                               !.stage = 1,
                               !.dest = << parseFloat(data[1].lon),
                                           parseFloat(data[1].lat) >> ] }
          /\ sent' = { RouteRequest(modes[1], op.from,
                                    << parseFloat(data[1].lon),
                                       parseFloat(data[1].lat) >>) }
          /\ toast' = NoToast
     ELSE /\ ops' = ops \ { op }
          /\ sent' = NoRequest
          /\ toast' = ToastDestinationNotFound
  /\ UNCHANGED << sideVars, communityVars, geoVars, endPoint, suggestVars,
                  travelTimes, selectedMode, routeLayer, mapLayers,
                  planCount >>

\* the fetch of geocode rejects: the exception leaves handleRouteCalculation
geocodeRejected(op) ==
  /\ Ready
  /\ op \in ops
  /\ op.stage = 0
  /\ ops' = ops \ { op }
  /\ sent' = NoRequest
  /\ toast' = NoToast
  /\ UNCHANGED << sideVars, communityVars, geoVars, endPoint, suggestVars,
                  travelTimes, selectedMode, routeLayer, mapLayers,
                  planCount >>

\* continueLoop publishing with setTravelTimes(prev => ({...prev, ...times}))
continueLoop_Merge(op, times) ==
  IF op.stage < Len(modes)
  THEN /\ ops' = (ops \ { op })
                 \cup { [ op EXCEPT !.stage = @ + 1, !.times = times ] }
       /\ sent' = { RouteRequest(modes[op.stage + 1], op.from, op.dest) }
       /\ UNCHANGED travelTimes
  ELSE /\ ops' = ops \ { op }
       /\ sent' = NoRequest
       /\ travelTimes' = [ m \in TravelMode |->
                             IF times[m] # NULL THEN times[m]
                             ELSE travelTimes[m] ]

\* README.md:267-289: the loop goes on with the next mode, or ends
continueLoop(op, times) ==
  IF op.stage < Len(modes)
  THEN /\ ops' = (ops \ { op })
                 \cup { [ op EXCEPT !.stage = @ + 1, !.times = times ] }
       /\ sent' = { RouteRequest(modes[op.stage + 1], op.from, op.dest) }
       /\ UNCHANGED travelTimes
  ELSE /\ ops' = ops \ { op }
       /\ sent' = NoRequest
       /\ travelTimes' = times

\* README.md:270-284: the route response for modes[op.stage] has arrived
routeResolved(op, data) ==
  /\ Ready
  /\ op \in ops
  /\ op.stage >= 1
  /\ IF Len(data.routes) > 0
     THEN /\ IF modes[op.stage] = op.mode
             THEN /\ mapLayers' =
                       (IF op.layer # NULL /\ mapCurrent
                        THEN mapLayers \ { op.layer[1] } ELSE mapLayers)
                       \cup { [ id |-> op.id, mode |-> modes[op.stage],
                                latlngs |->
                                  LatLngs(data.routes[1].coordinates) ] }
                  /\ routeLayer' =
                       Some([ id |-> op.id, mode |-> modes[op.stage],
                              latlngs |->
                                LatLngs(data.routes[1].coordinates) ])
             ELSE UNCHANGED << mapLayers, routeLayer >>
          /\ continueLoop(op, [ op.times EXCEPT
                                  ![modes[op.stage]] =
                                     Some(data.routes[1].duration) ])
     ELSE /\ UNCHANGED << mapLayers, routeLayer >>
          /\ continueLoop(op, op.times)
  /\ toast' = NoToast
  /\ UNCHANGED << sideVars, communityVars, geoVars, endPoint, suggestVars,
                  selectedMode, planCount >>

\* the loop without its try/catch: a rejected fetch ends the whole call
routeRejected_Abort(op) ==
  /\ Ready
  /\ op \in ops
  /\ op.stage >= 1
  /\ ops' = ops \ { op }
  /\ sent' = NoRequest
  /\ toast' = NoToast
  /\ UNCHANGED << sideVars, communityVars, geoVars, endPoint, suggestVars,
                  selectedMode, planCount, mapLayers, routeLayer,
                  travelTimes >>

\* README.md:285-287: the fetch of the route rejects, the error is ignored
routeRejected(op) ==
  /\ Ready
  /\ op \in ops
  /\ op.stage >= 1
  /\ continueLoop(op, op.times)
  /\ toast' = NoToast
  /\ UNCHANGED << sideVars, communityVars, geoVars, endPoint, suggestVars,
                  selectedMode, planCount, mapLayers, routeLayer >>

(***************************************************************************)
(* The travel time buttons (README.md:563-580) and formatDuration          *)
(* (README.md:371-380).  A duration is a whole number of seconds, or NULL  *)
(* for undefined; Math.round(seconds / 60) of a whole number of seconds    *)
(* is (seconds + 30) \div 60, a half being rounded up.                     *)
(***************************************************************************)
MaxSeconds == 7260  \* cap on the durations the router returns

Placeholder == << "-", "-" >>

\* README.md:373
mins(seconds) == (seconds + 30) \div 60

\* README.md:374-379 for a rounded minute count
MinutesText(m) ==
  IF m >= 60
  THEN NumToString(m \div 60) \o << "h", " " >> \o NumToString(m % 60)
       \o << "m" >>
  ELSE NumToString(m) \o << " ", "m", "i", "n" >>

\* formatDuration with the hours form chosen by seconds >= 3600
formatDuration_HoursBySeconds(seconds) ==
  IF seconds = NULL \/ seconds[1] = 0 THEN Placeholder
  ELSE IF seconds[1] >= 3600
       THEN NumToString(mins(seconds[1]) \div 60) \o << "h", " " >>
            \o NumToString(mins(seconds[1]) % 60) \o << "m" >>
       ELSE NumToString(mins(seconds[1])) \o << " ", "m", "i", "n" >>

\* formatDuration with Math.floor in place of Math.round
formatDuration_Floor(seconds) ==
  IF seconds = NULL \/ seconds[1] = 0 THEN Placeholder
  ELSE MinutesText(seconds[1] \div 60)

\* formatDuration with the check of README.md:372 for undefined only
formatDuration_ZeroIsANumber(seconds) ==
  IF seconds = NULL THEN Placeholder
  ELSE MinutesText(mins(seconds[1]))

\* README.md:371-380
formatDuration(seconds) ==
  IF seconds = NULL \/ seconds[1] = 0 THEN Placeholder
  ELSE MinutesText(mins(seconds[1]))

\* README.md:564  Object.keys(travelTimes).length > 0
TimesShown == CardShown /\ HasTimes(travelTimes)

\* README.md:575  the text on the button of a mode
displayedDuration(mode) == formatDuration(travelTimes[mode])

(***************************************************************************)
(* The rating line of a route in the community modal (README.md:434-436):  *)
(* (sum / count).toFixed(1).  The quotient is the IEEE 754 double nearest  *)
(* to sum/count, and toFixed(1) takes the multiple of 0.1 nearest to the   *)
(* exact value of that double, the larger one if two are equally near.     *)
(* For ratings of 1..5 the quotient lies in [1, 8), so its double has      *)
(* 52 - e binary places, e being 0, 1 or 2.                                *)
(***************************************************************************)
NoRatingsYet ==
  << "N", "o", " ", "r", "a", "t", "i", "n", "g", "s", " ", "y", "e", "t" >>

\* README.md:435  ratings.reduce((a, b) => a + b, 0)
RECURSIVE Sum(_)
Sum(ratings) ==
  IF ratings = <<>> THEN 0 ELSE Head(ratings) + Sum(Tail(ratings))

\* the binary expansion of r/n carried k places further: the remainder and
\* the last bit produced
RECURSIVE BinaryPlaces(_, _, _, _)
BinaryPlaces(r, n, k, last) ==
  IF k = 0 THEN << r, last >>
  ELSE BinaryPlaces((2 * r) % n, n, k - 1, (2 * r) \div n)

\* the sign of (the double sum / n) - (the rational sum/n): the quotient
\* is rounded to the nearest double, to the even one in a tie
QuotientError(sum, n) ==
  LET places == 52 - (IF sum < 2 * n THEN 0 ELSE IF sum < 4 * n THEN 1 ELSE 2)
      rl == BinaryPlaces(sum % n, n, places, (sum \div n) % 2)
  IN  IF rl[1] = 0 THEN 0
      ELSE IF 2 * rl[1] < n THEN -1
      ELSE IF 2 * rl[1] > n THEN 1
      ELSE IF rl[2] = 1 THEN 1 ELSE -1

\* the number of tenths toFixed(1) prints for the double sum / n
Tenths(sum, n) ==
  IF 2 * ((10 * sum) % n) < n THEN (10 * sum) \div n
  ELSE IF 2 * ((10 * sum) % n) > n THEN (10 * sum) \div n + 1
  ELSE IF QuotientError(sum, n) >= 0 THEN (10 * sum) \div n + 1
  ELSE (10 * sum) \div n

TenthsText(t) == NumToString(t \div 10) \o << "." >> \o NumToString(t % 10)

\* README.md:435
ratingDisplay(route) ==
  IF Len(route.ratings) > 0
  THEN TenthsText(Tenths(Sum(route.ratings), Len(route.ratings)))
  ELSE NoRatingsYet

(***************************************************************************)
(* Specifications.  Every action is an event of the rendered component: a  *)
(* widget can be activated when it is rendered and not disabled.           *)
(*                                                                         *)
(* Spec is the authoring flow with localStorage, restart and geolocation.  *)
(***************************************************************************)
Next ==
  \/ saveCommunityRoutes
  \/ Reload
  \/ useEffectGeolocation
  \/ \E c \in Positions : getCurrentPositionSuccess(c)
  \/ \E error \in PositionErrors : getCurrentPositionError(error)
  \/ OpenCommunity
  \/ CloseCommunity
  \/ ClickCreateRoute
  \/ \E c \in Coords : handleClick(c)
  \/ \E c \in Coords : MapClickUnheard(c)
  \/ \E text \in Names : ChangeRouteName(text)
  \/ \E text \in Descs : ChangeRouteDesc(text)
  \/ CancelCreateRoute
  \/ ClickSaveRoute

Spec == Init /\ [][Next]_vars

(***************************************************************************)
(* SpecOps adds the save operation invoked on its own, whatever the state  *)
(* of the Save Route button: handleSaveRoute validates the draft itself.   *)
(***************************************************************************)
CallSaveRoute ==
  /\ Ready
  /\ creatingRoute
  /\ \E now \in Times : handleSaveRoute(now)

NextOps == Next \/ CallSaveRoute

SpecOps == Init /\ [][NextOps]_vars

(***************************************************************************)
(* SpecSession is a whole session, authoring and rating together.  To keep *)
(* it finite and small the user draws over one map point, types no         *)
(* description and clicks the first or the last star.                      *)
(***************************************************************************)
SessionCoords == { <<0, 1>> }
StarsClicked == { 1, 5 }

NextSession ==
  \/ saveCommunityRoutes
  \/ Reload
  \/ useEffectGeolocation
  \/ \E c \in Positions : getCurrentPositionSuccess(c)
  \/ OpenCommunity
  \/ CloseCommunity
  \/ ClickCreateRoute
  \/ \E c \in SessionCoords : handleClick(c)
  \/ \E text \in Names : ChangeRouteName(text)
  \/ CancelCreateRoute
  \/ ClickSaveRoute
  \/ \E i \in 1..Len(communityRoutes) : ClickView(i)
  \/ \E i \in 1..Len(communityRoutes) : ClickRate(i)
  \/ \E star \in StarsClicked : ClickStar(star)
  \/ CloseRate
  \/ ClickSubmitRating

SpecSession == Init /\ [][NextSession]_vars

(***************************************************************************)
(* SpecPlan is route planning: geolocation, the destination field, the     *)
(* Plan Route and travel mode buttons and the responses of the geocoder    *)
(* and the router.                                                         *)
(***************************************************************************)
NextPlan ==
  \/ saveCommunityRoutes
  \/ Reload
  \/ useEffectGeolocation
  \/ \E c \in Positions : getCurrentPositionSuccess(c)
  \/ \E error \in PositionErrors : getCurrentPositionError(error)
  \/ \E text \in Texts : ChangeDestination(text)
  \/ ClickPlanRoute
  \/ \E mode \in TravelMode : ClickMode(mode)
  \/ \E op \in ops : \E data \in GeocodeData : geocodeResolved(op, data)
  \/ \E op \in ops : geocodeRejected(op)
  \/ \E op \in ops : \E data \in RouteData(op.from, op.dest) :
       routeResolved(op, data)
  \/ \E op \in ops : routeRejected(op)

SpecPlan == Init /\ [][NextPlan]_vars

(***************************************************************************)
(* SpecGeo is SpecPlan with the responses to the reverse lookup of the     *)
(* position.                                                               *)
(***************************************************************************)
NextGeo ==
  \/ NextPlan
  \/ \E k \in 1..Len(lookups) : \E data \in ReverseData :
       reverseResolved(k, data)
  \/ \E k \in 1..Len(lookups) : reverseRejected(k)

SpecGeo == Init /\ [][NextGeo]_vars

(***************************************************************************)
(* SpecNet is SpecGeo in a browser that goes online and offline, loaded    *)
(* online or offline, with the Center Map button.                          *)
(***************************************************************************)
NextNet ==
  \/ NextGeo
  \/ WindowOnline
  \/ WindowOffline
  \/ handleCurrentLocation

SpecNet == InitNet /\ [][NextNet]_vars

(***************************************************************************)
(* SpecFrame is one session with every kind of operation: the position     *)
(* request, the Center Map button, connectivity events and either the      *)
(* community routes (authoring and rating) or the destination field with   *)
(* its suggestions and one planning call.  To keep it small the user does  *)
(* not mix the two: the community operations are taken while the           *)
(* destination field is untouched and the destination operations while the *)
(* community state is untouched.  The record in localStorage is absent.    *)
(***************************************************************************)
CommunityIdle ==
  /\ communityRoutes = <<>>
  /\ ~showCommunity
  /\ ~creatingRoute
  /\ newRouteCoords = <<>>
  /\ newRouteName = <<>>
  /\ selectedCommunityRoute = NULL
  /\ ratingInput = 0

PlanningIdle ==
  /\ endPoint = <<>>
  /\ suggestions = <<>>
  /\ fetches = <<>>
  /\ ~suggestionLoading
  /\ planCount = 0

InitFrame == Init /\ storage = NULL

NextFrame ==
  \/ saveCommunityRoutes
  \/ useEffectGeolocation
  \/ \E c \in Positions : getCurrentPositionSuccess(c)
  \/ \E error \in PositionErrors : getCurrentPositionError(error)
  \/ handleCurrentLocation
  \/ WindowOnline
  \/ WindowOffline
  \/ /\ PlanningIdle
     /\ \/ OpenCommunity
        \/ CloseCommunity
        \/ ClickCreateRoute
        \/ \E c \in SessionCoords : handleClick(c)
        \/ \E text \in Names : ChangeRouteName(text)
        \/ CancelCreateRoute
        \/ ClickSaveRoute
        \/ \E i \in 1..Len(communityRoutes) : ClickView(i)
        \/ \E i \in 1..Len(communityRoutes) : ClickRate(i)
        \/ \E star \in StarsClicked : ClickStar(star)
        \/ CloseRate
        \/ ClickSubmitRating
  \/ /\ CommunityIdle
     /\ \/ \E text \in { <<>>, << "X" >> } : ChangeDestination(text)
        \/ \E k \in 1..Len(fetches) : \E data \in SearchData(fetches[k]) :
             suggestionsResolved(k, data)
        \/ \E k \in 1..Len(fetches) : suggestionsRejected(k)
        \/ \E i \in 1..Len(suggestions) : ClickSuggestion(i)
        \/ planCount = 0 /\ ClickPlanRoute
        \/ \E op \in ops : \E data \in GeocodeData : geocodeResolved(op, data)
        \/ \E op \in ops : geocodeRejected(op)
        \/ \E op \in ops : \E data \in RouteData(op.from, op.dest) :
             routeResolved(op, data)
        \/ \E op \in ops : routeRejected(op)

SpecFrame == InitFrame /\ [][NextFrame]_vars

(***************************************************************************)
(* SpecSuggest is the destination field with its autocomplete: the user    *)
(* types, clears and extends a text and picks suggestions; the responses   *)
(* arrive in any order.                                                    *)
(***************************************************************************)
Queries == { <<>>, << "X" >>, << "X", "Y" >> }

NextSuggest ==
  \/ saveCommunityRoutes
  \/ useEffectGeolocation
  \/ \E c \in Positions : getCurrentPositionSuccess(c)
  \/ \E text \in Queries : ChangeDestination(text)
  \/ \E k \in 1..Len(fetches) : \E data \in SearchData(fetches[k]) :
       suggestionsResolved(k, data)
  \/ \E k \in 1..Len(fetches) : suggestionsRejected(k)
  \/ \E i \in 1..Len(suggestions) : ClickSuggestion(i)

SpecSuggest == Init /\ [][NextSuggest]_vars

(***************************************************************************)
(* SpecLocate is one session from the mount on: the position request, the  *)
(* reverse lookup of the position and the destination field.  In           *)
(* SpecLocateFair the effects that are due are run, as React runs them     *)
(* after the render that scheduled them, and the browser answers the       *)
(* position request with one of its two callbacks.                         *)
(***************************************************************************)
PositionAnswers ==
  \/ \E c \in Positions : getCurrentPositionSuccess(c)
  \/ \E error \in PositionErrors : getCurrentPositionError(error)

NextLocate ==
  \/ saveCommunityRoutes
  \/ useEffectGeolocation
  \/ PositionAnswers
  \/ \E k \in 1..Len(lookups) : \E data \in ReverseData :
       reverseResolved(k, data)
  \/ \E k \in 1..Len(lookups) : reverseRejected(k)
  \/ \E text \in Queries : ChangeDestination(text)
  \/ \E k \in 1..Len(fetches) : \E data \in SearchData(fetches[k]) :
       suggestionsResolved(k, data)
  \/ \E k \in 1..Len(fetches) : suggestionsRejected(k)

SpecLocate == Init /\ [][NextLocate]_vars

SpecLocateFair ==
  /\ SpecLocate
  /\ WF_vars(saveCommunityRoutes)
  /\ WF_vars(useEffectGeolocation)
  /\ WF_vars(PositionAnswers)

(***************************************************************************)
(* SpecFormat is one planning call whose car route may have any duration   *)
(* up to MaxSeconds, while the requests for the other modes fail.          *)
(***************************************************************************)
NextFormat ==
  \/ saveCommunityRoutes
  \/ useEffectGeolocation
  \/ \E c \in Positions : getCurrentPositionSuccess(c)
  \/ ChangeDestination(<< "X" >>)
  \/ planCount = 0 /\ ClickPlanRoute
  \/ \E op \in ops : \E data \in GeocodeData : geocodeResolved(op, data)
  \/ \E op \in ops : \E d \in 0..MaxSeconds :
       /\ op.stage = 1
       /\ routeResolved(op, [ routes |->
                                << [ duration |-> d,
                                     coordinates |-> << op.from, op.dest >> ]
                                >> ])
  \/ \E op \in ops : routeRejected(op)

SpecFormat == Init /\ [][NextFormat]_vars

(***************************************************************************)
(* SpecAverage is a session that finds one route in localStorage, with a   *)
(* list of ratings of up to MaxShown entries, and looks at it in the       *)
(* community modal and the rating modal.                                   *)
(***************************************************************************)
MaxShown == 20      \* cap on the ratings of the stored route

Repeat(x, k) == [ i \in 1..k |-> x ]

\* i times the lower and then j times the higher of two neighbouring stars
RatingLists ==
  { Repeat(lo, i) \o Repeat(lo + 1, j) :
      lo \in { 1, 4 }, i \in 0..MaxShown, j \in 0..MaxShown }

StoredCollections ==
  { Some(JSONstringify(<< RouteType(<< "9" >>, << "A" >>, <<>>,
                                    << <<0, 1>>, <<2, 3>> >>, ratings) >>)) :
      ratings \in { l \in RatingLists : Len(l) <= MaxShown } }

InitAverage ==
  /\ storage \in StoredCollections
  /\ Mounted(storage, communityRoutes, persistPending, crashed)
  /\ showCommunity = FALSE
  /\ creatingRoute = FALSE
  /\ newRouteCoords = <<>>
  /\ newRouteName = <<>>
  /\ newRouteDesc = <<>>
  /\ selectedCommunityRoute = NULL
  /\ ratingInput = 0
  /\ clickOn = FALSE
  /\ userLocation = NULL
  /\ locationLoading = TRUE
  /\ geoPending = <<>>
  /\ geoEffect = ~crashed
  /\ supported \in BOOLEAN
  /\ positionRequests = 0
  /\ currentAddress = <<>>
  /\ lookups = <<>>
  /\ mapboxToken = <<>>
  /\ showTokenDialog = FALSE
  /\ tokenInput = <<>>
  /\ endPoint = <<>>
  /\ suggestions = <<>>
  /\ suggestionLoading = FALSE
  /\ fetches = <<>>
  /\ travelTimes = NoTimes
  /\ selectedMode = "foot"
  /\ routeLayer = NULL
  /\ mapLayers = {}
  /\ ops = {}
  /\ planCount = 0
  /\ isOfflineMode = FALSE
  /\ onLine = TRUE
  /\ draftLayers = {}
  /\ tempLayer = NULL
  /\ selectedLayers = {}
  /\ polyline = NULL
  /\ showTokenInput = FALSE
  /\ MapPage_tokenInput = <<>>
  /\ toast = NoToast
  /\ sent = NoRequest

NextAverage ==
  \/ saveCommunityRoutes
  \/ useEffectGeolocation
  \/ OpenCommunity
  \/ CloseCommunity
  \/ \E i \in 1..Len(communityRoutes) : ClickView(i)
  \/ \E i \in 1..Len(communityRoutes) : ClickRate(i)
  \/ \E star \in StarsClicked : ClickStar(star)
  \/ CloseRate

SpecAverage == InitAverage /\ [][NextAverage]_vars

(***************************************************************************)
(* SpecMapbox is the location acquisition of the Mapbox version with its   *)
(* token dialog.                                                           *)
(***************************************************************************)
NextMapbox ==
  \/ useEffectGeolocation
  \/ \E k \in 1..Len(geoPending) : \E c \in TwoPositions :
       getCurrentPositionSuccessMapbox(k, c)
  \/ \E k \in 1..Len(geoPending) : \E error \in PositionErrors :
       getCurrentPositionErrorMapbox(k, error)
  \/ \E k \in 1..Len(lookups) : \E data \in MapboxReverseData :
       reverseResolvedMapbox(k, data)
  \/ \E k \in 1..Len(lookups) : reverseRejectedMapbox(k)
  \/ handleSetupMaps
  \/ CloseTokenDialog
  \/ \E text \in TokenTexts : ChangeTokenInput(text)
  \/ handleTokenSubmit

SpecMapbox == InitMapbox /\ [][NextMapbox]_vars

(***************************************************************************)
(* SpecPage is MapPage: the token screen and, once a token is accepted,    *)
(* the location acquisition of the Mapbox version.  The Setup Maps button  *)
(* of MapInterface is rendered only without a token and MapPage passes no  *)
(* onTokenSet, so the token dialog of MapInterface never opens here.  The   *)
(* connectivity listeners are those of part_000:112-122, added like the    *)
(* ones of README.md:193-203 by the effect that creates the map.           *)
(***************************************************************************)
NextPage ==
  \/ WindowOnline
  \/ WindowOffline
  \/ \E text \in TokenTexts : MapPage_ChangeTokenInput(text)
  \/ ClickStartNavigation
  \/ \E key \in Keys : handleKeyPress(key)
  \/ useEffectGeolocation
  \/ \E k \in 1..Len(geoPending) : \E c \in TwoPositions :
       getCurrentPositionSuccessMapbox(k, c)
  \/ \E k \in 1..Len(geoPending) : \E error \in PositionErrors :
       getCurrentPositionErrorMapbox(k, error)
  \/ \E k \in 1..Len(lookups) : \E data \in MapboxReverseData :
       reverseResolvedMapbox(k, data)
  \/ \E k \in 1..Len(lookups) : reverseRejectedMapbox(k)

SpecPage == InitPage /\ [][NextPage]_vars

(***************************************************************************)
(* SpecPlanFair is SpecPlan where the geocoder answers every request and   *)
(* the router answers every request for car and for bike with a route; a   *)
(* request for foot may stay unanswered for ever (it hangs).               *)
(***************************************************************************)
GeocoderAnswers ==
  \E op \in ops : \E data \in GeocodeData :
    Len(data) > 0 /\ geocodeResolved(op, data)

RouterAnswers(mode) ==
  \E op \in ops : \E data \in RouteData(op.from, op.dest) :
    /\ op.stage >= 1
    /\ modes[op.stage] = mode
    /\ Len(data.routes) > 0
    /\ routeResolved(op, data)

SpecPlanFair ==
  /\ SpecPlan
  /\ WF_vars(saveCommunityRoutes)
  /\ WF_vars(GeocoderAnswers)
  /\ WF_vars(RouterAnswers("car"))
  /\ WF_vars(RouterAnswers("bike"))

(***************************************************************************)
(* SpecPlanOps adds the planning operation invoked on its own, whatever    *)
(* is rendered, with its default argument (mode = selectedMode):           *)
(* handleRouteCalculation checks its preconditions itself.                 *)
(***************************************************************************)
CallRouteCalculation ==
  /\ Ready
  /\ CanPlan
  /\ handleRouteCalculation(selectedMode)

NextPlanOps ==
  \/ NextPlan
  \/ CallRouteCalculation

SpecPlanOps == Init /\ [][NextPlanOps]_vars

(***************************************************************************)
(* Properties.                                                             *)
(***************************************************************************)

\* C1 (SpecOps): a call of handleSaveRoute made while authoring with an
\* empty draft name or fewer than 2 draft coordinates shows the validation
\* message and changes neither the collection, nor the persisted record,
\* nor the draft; the component is still authoring afterwards.  The call
\* leaves the state as it found it, so repeating it changes nothing either.
C1_RejectedSaveChangesNothing ==
  [][ (CallSaveRoute /\ (newRouteName = <<>> \/ Len(newRouteCoords) < 2))
      => /\ toast' = "Route creation"
         /\ creatingRoute'
         /\ UNCHANGED << communityRoutes, storage, persistPending,
                         newRouteCoords, newRouteName, newRouteDesc,
                         creatingRoute, clickOn >> ]_vars

\* a rejected save: a route is stored, the draft has a name but one point
C1_Witness ==
  /\ toast = "Route creation"
  /\ creatingRoute
  /\ Len(communityRoutes) = 1
  /\ newRouteName # <<>>
  /\ Len(newRouteCoords) = 1

\* C2 (Spec): a save with a non-empty name and at least 2 coordinates
\* makes the collection one longer; the routes it held keep their places
\* and values; the new last route carries the draft's name, description
\* and coordinates and no rating; the draft is cleared and authoring ends.
C2_ValidSaveAppendsOneRoute ==
  [][ ClickSaveRoute
      => /\ Len(communityRoutes') = Len(communityRoutes) + 1
         /\ SubSeq(communityRoutes', 1, Len(communityRoutes)) = communityRoutes
         /\ communityRoutes'[Len(communityRoutes')].name = newRouteName
         /\ communityRoutes'[Len(communityRoutes')].description = newRouteDesc
         /\ communityRoutes'[Len(communityRoutes')].coordinates
              = newRouteCoords
         /\ communityRoutes'[Len(communityRoutes')].ratings = <<>>
         /\ ~creatingRoute'
         /\ newRouteCoords' = <<>> ]_vars

\* the second route has just been saved, its two points in click order
C2_Witness ==
  /\ toast = "Route saved!"
  /\ Len(communityRoutes) = 2
  /\ communityRoutes[2].coordinates = << <<2, 3>>, <<0, 1>> >>
  /\ communityRoutes[2].description = << "D" >>
  /\ ~creatingRoute

\* C3 (Spec): the ids of the routes of the collection are pairwise
\* distinct.
C3_IdsPairwiseDistinct ==
  \A i, j \in 1..Len(communityRoutes) :
    i # j => communityRoutes[i].id # communityRoutes[j].id

\* C4 (SpecSession): a rating submission appends the rating to the ratings
\* of one route, the selected one, and leaves every other route, and the
\* number and order of the routes, as they were.
C4_RatingAppendsToOneRoute ==
  [][ ClickSubmitRating
      => /\ Len(communityRoutes') = Len(communityRoutes)
         /\ \E k \in 1..Len(communityRoutes) :
              /\ communityRoutes[k].id = selectedCommunityRoute[1].id
              /\ communityRoutes'[k] =
                   [ communityRoutes[k] EXCEPT
                       !.ratings = Append(@, ratingInput) ]
              /\ \A j \in 1..Len(communityRoutes) :
                   j # k => communityRoutes'[j] = communityRoutes[j] ]_vars

\* C5 (SpecSession): every rating of every route is in 1..5, and no step
\* taken while the rating input is 0 changes any route's ratings.
C5_RatingsInRange ==
  /\ [](\A i \in 1..Len(communityRoutes) :
          \A k \in 1..Len(communityRoutes[i].ratings) :
            communityRoutes[i].ratings[k] \in 1..5)
  /\ [][ ratingInput = 0
         => \A i \in 1..Len(communityRoutes) :
              /\ i <= Len(communityRoutes')
              /\ communityRoutes'[i].ratings = communityRoutes[i].ratings
     ]_vars

\* the rate modal is open on a rated route with no star selected
C5_Witness ==
  /\ selectedCommunityRoute # NULL
  /\ ratingInput = 0
  /\ Len(selectedCommunityRoute[1].ratings) >= 1

\* C6 (SpecSession): a step that changes the collection leaves a persist
\* step pending; whenever none is pending the record is the text of the
\* collection; and whatever is written to the record is the text of the
\* whole collection held at that moment.
C6_RecordEqualsCollection ==
  /\ [](Ready => /\ storage = Some(JSONstringify(communityRoutes))
                 /\ loadCommunityRoutes(storage).routes = communityRoutes)
  /\ [][ communityRoutes' # communityRoutes => persistPending' ]_vars
  /\ [][ storage' # storage
         => storage' = Some(JSONstringify(communityRoutes)) ]_vars

\* two routes, one of them rated, have been persisted
C6_Witness ==
  /\ Ready
  /\ Len(communityRoutes) = 2
  /\ RatingsHeld >= 1
  /\ toast = NoToast

\* C7 (SpecSession): loading the page again gives the collection the
\* session before it held: the same routes in the same order with the
\* same ids, names, descriptions, coordinates and ratings.
C7_RoundTrip ==
  [][ (~crashed /\ Reload)
      => /\ ~crashed'
         /\ communityRoutes' = communityRoutes ]_vars

\* just after a reload: two routes, one of them rated twice, were loaded
\* from the record and nothing else has happened yet
C7_Witness ==
  /\ persistPending
  /\ geoEffect
  /\ userLocation = NULL
  /\ storage = Some(JSONstringify(communityRoutes))
  /\ Len(communityRoutes) = 2
  /\ Len(communityRoutes[1].ratings) = 2
  /\ Len(communityRoutes[1].coordinates) = 2

\* C8 (Spec): when the record is not the text of a collection, the
\* component is up and its collection is empty.
C8_MalformedRecordLoadsEmpty ==
  (storage # NULL /\ ~JSONparse(storage[1]).ok)
    => (~crashed /\ communityRoutes = <<>>)

\* C9 (SpecSession): over every step the collection does not get shorter,
\* every route keeps its place, id, name, description and coordinates,
\* and its ratings before the step are a prefix of its ratings after.
C9_RoutesOnlyGainRatings ==
  [][ /\ Len(communityRoutes') >= Len(communityRoutes)
      /\ \A i \in 1..Len(communityRoutes) :
           /\ communityRoutes'[i].id = communityRoutes[i].id
           /\ communityRoutes'[i].name = communityRoutes[i].name
           /\ communityRoutes'[i].description = communityRoutes[i].description
           /\ communityRoutes'[i].coordinates = communityRoutes[i].coordinates
           /\ Len(communityRoutes'[i].ratings)
                >= Len(communityRoutes[i].ratings)
           /\ SubSeq(communityRoutes'[i].ratings, 1,
                     Len(communityRoutes[i].ratings))
                = communityRoutes[i].ratings ]_vars

\* the first of two routes has been rated a second time
C9_Witness ==
  /\ toast = "Thank you!"
  /\ Len(communityRoutes) = 2
  /\ communityRoutes[1].ratings = << 5, 1 >>
  /\ communityRoutes[2].ratings = <<>>

\* C10 (SpecPlanOps): a call of handleRouteCalculation made while the user
\* position is unset or the destination text is empty shows the error
\* message, sends no request, starts no pending call, and leaves the drawn
\* route as it was.
C10_PlanWithoutInputsSendsNothing ==
  [][ ((\E mode \in TravelMode : handleRouteCalculation(mode))
       /\ (userLocation = NULL \/ endPoint = <<>>))
      => /\ toast' = ToastNoLocationOrDestination
         /\ sent' = NoRequest
         /\ UNCHANGED << ops, planCount, routeLayer, mapLayers >> ]_vars

\* the call was rejected for its empty destination while a route is drawn
C10_Witness ==
  /\ toast = ToastNoLocationOrDestination
  /\ sent = NoRequest
  /\ endPoint = <<>>
  /\ userLocation # NULL
  /\ routeLayer # NULL
  /\ routeLayer[1] \in mapLayers

\* C11 (SpecPlan): when the geocoder returns no candidate, the call shows
\* the "could not find the destination" message and ends: it sends no
\* route request, the drawn route stays on the map, and the duration table
\* shown is empty.
C11_UnresolvedDestinationAborts ==
  [][ (\E op \in ops : geocodeResolved(op, <<>>))
      => /\ toast' = ToastDestinationNotFound
         /\ sent' = NoRequest
         /\ UNCHANGED << routeLayer, mapLayers >>
         /\ ~HasTimes(travelTimes') ]_vars

\* what a route response leaves: r in the entry of the mode asked for, the
\* other entries as they were, handed on to the next request or published
C12_Outcome(op, r) ==
  /\ toast' = NoToast
  /\ IF op.stage < Len(modes)
     THEN [ op EXCEPT !.stage = @ + 1,
                      !.times = [ op.times EXCEPT ![modes[op.stage]] = r ] ]
            \in ops'
     ELSE travelTimes' = [ op.times EXCEPT ![modes[op.stage]] = r ]

\* C12 (SpecPlan): a route fetch that rejects or returns no route leaves
\* its mode absent and raises no message, a fetch that returns a route
\* enters its duration, and neither touches the entries of the other
\* modes; the call goes on to the next mode and, after the last one,
\* publishes the table so made.  A mode not fetched yet is absent.
C12_FailedModeIsOmitted ==
  /\ [](\A op \in ops : \A k \in 1..Len(modes) :
          (op.stage = 0 \/ k >= op.stage) => op.times[modes[k]] = NULL)
  /\ [][ \A op \in ops :
           /\ routeRejected(op) => C12_Outcome(op, NULL)
           /\ \A data \in RouteData(op.from, op.dest) :
                routeResolved(op, data)
                  => C12_Outcome(op, IF Len(data.routes) > 0
                                     THEN Some(data.routes[1].duration)
                                     ELSE NULL) ]_vars

\* a call has ended in which only the fetch for the selected mode failed
C12_Witness ==
  /\ ops = {}
  /\ toast = NoToast
  /\ selectedMode = "foot"
  /\ travelTimes = [ car |-> Some(125), bike |-> Some(125), foot |-> NULL ]
  /\ routeLayer = NULL

\* C13 (SpecPlan): once the destination is resolved, the route requests
\* for car, bike and foot are all sent in that same step, none waiting for
\* the response to another.
C13_RouteRequestsSentTogether ==
  [][ \A op \in ops : \A data \in GeocodeData :
        (Len(data) > 0 /\ geocodeResolved(op, data))
          => \A mode \in TravelMode :
               \E q \in sent' : q.kind = "route" /\ q.profile = modeProfile[mode]
    ]_vars

\* C14 (SpecPlanFair): once a call has the durations of car and bike and
\* only its foot request is unanswered, the table shown eventually holds
\* the durations of car and bike.
C14_OtherModesPublished ==
  (\E op \in ops : /\ op.stage = Len(modes)
                   /\ op.times["car"] # NULL
                   /\ op.times["bike"] # NULL)
    ~> (travelTimes["car"] # NULL /\ travelTimes["bike"] # NULL)

\* C15 (SpecPlan): at most one current-route path is on the map.
C15_OneCurrentRoutePath == Cardinality(mapLayers) <= 1

\* C19 (SpecPlan): when the geocode fetch of a call rejects, a message is
\* shown.
C19_GeocodeFailureIsReported ==
  [][ (\E op \in ops : geocodeRejected(op)) => toast' # NoToast ]_vars

\* C20 (Spec): after the create modal is closed without saving, authoring
\* has ended and the draft's coordinates, name and description are empty.
C20_CancelDiscardsDraft ==
  [][ CancelCreateRoute
      => /\ ~creatingRoute'
         /\ newRouteCoords' = <<>>
         /\ newRouteName' = <<>>
         /\ newRouteDesc' = <<>> ]_vars

\* C16 (SpecMapbox): over a session no more than one position request is
\* issued; nothing after the request of the mount issues a second one.
C16_OnePositionRequest == positionRequests <= 1

\* C17 (SpecMapbox): once a position is stored the displayed address is not
\* blank, and as long as no lookup has delivered a name it is the text
\* "{lat to 4 decimals}, {lon to 4 decimals}" of the stored position.
C17_AddressIsNameOrFallback ==
  userLocation # NULL
    => /\ displayedAddress # <<>>
       /\ \/ displayedAddress = << "H", "o", "m", "e" >>
          \/ displayedAddress = CoordsText(userLocation[1])

\* C18 (SpecGeo): when the position cannot be acquired, because the browser
\* has no geolocation or because the request failed for any of its reasons,
\* loading ends, no position is stored and a notice is shown.
C18_AcquisitionFailureIsReported ==
  [][ (\/ useEffectGeolocation /\ ~supported
       \/ \E error \in PositionErrors : getCurrentPositionError(error))
      => /\ ~locationLoading'
         /\ userLocation' = NULL
         /\ toast' = "Location Access" ]_vars

\* C21 (Spec): whenever Create Route takes the user from idle to authoring,
\* the draft's coordinates, name and description are empty right after it.
C21_AuthoringStartsEmpty ==
  [][ (~creatingRoute /\ ClickCreateRoute)
      => /\ newRouteCoords' = <<>>
         /\ newRouteName' = <<>>
         /\ newRouteDesc' = <<>> ]_vars

\* C22 (Spec): a click on the map while authoring appends the clicked point
\* to the end of the draft; a click while not authoring leaves the draft as
\* it is.
C22_MapClickAppends ==
  [][ \A c \in Coords :
        (handleClick(c) \/ MapClickUnheard(c))
        => IF creatingRoute
           THEN newRouteCoords' = Append(newRouteCoords, c)
           ELSE newRouteCoords' = newRouteCoords ]_vars

\* C23 (SpecSession): whenever a route gets selected while none was, the
\* rating selection is 0 right after it.
C23_RatingStartsUnset ==
  [][ (selectedCommunityRoute = NULL /\ selectedCommunityRoute' # NULL)
      => ratingInput' = 0 ]_vars

\* C24 (SpecSuggest): when the destination text is changed to the empty
\* string, the suggestion list is empty right after the change and the
\* change issues no request.
C24_EmptyTextClearsSuggestions ==
  [][ ChangeDestination(<<>>)
      => /\ suggestions' = <<>>
         /\ sent' = NoRequest
         /\ fetches' = fetches ]_vars

\* the text was cleared while a request for an earlier text was outstanding
C24_Witness ==
  /\ endPoint = <<>>
  /\ suggestions = <<>>
  /\ fetches # <<>>
  /\ sent = NoRequest

C26_AnyResponseReplacesTheList ==
  [][ \A k \in 1..Len(fetches) : \A data \in SearchData(fetches[k]) :
        suggestionsResolved(k, data) => suggestions' = data ]_vars

\* the list shown is the answer for "X" while the text is "XY" and no
\* request is outstanding any more
C26_Witness ==
  /\ endPoint = << "X", "Y" >>
  /\ fetches = <<>>
  /\ suggestions # <<>>
  /\ suggestions[1] = Place(<< "X" >>, 1)

\* C27 as stated (SpecFormat): every duration d with 0 < d < 3600 is shown
\* as "{round(d/60)} min", also when round(d/60) is 60.
C27_BelowOneHourInMinutes ==
  \A mode \in TravelMode :
    (/\ TimesShown
     /\ travelTimes[mode] # NULL
     /\ travelTimes[mode][1] > 0
     /\ travelTimes[mode][1] < 3600)
    => displayedDuration(mode)
         = NumToString((travelTimes[mode][1] + 30) \div 60)
           \o << " ", "m", "i", "n" >>

\* C27 amended (SpecFormat): every duration d with 0 < d < 3600 is shown as
\* "{round(d/60)} min" when round(d/60) is below 60, and as "1h 0m" when
\* round(d/60) is 60.
C27_BelowOneHourInMinutesOrOneHour ==
  \A mode \in TravelMode :
    (/\ TimesShown
     /\ travelTimes[mode] # NULL
     /\ travelTimes[mode][1] > 0
     /\ travelTimes[mode][1] < 3600)
    => displayedDuration(mode)
         = IF (travelTimes[mode][1] + 30) \div 60 < 60
           THEN NumToString((travelTimes[mode][1] + 30) \div 60)
                \o << " ", "m", "i", "n" >>
           ELSE << "1", "h", " ", "0", "m" >>

\* a duration below one hour whose rounded minute count is 60 is shown
C27_Witness ==
  /\ TimesShown
  /\ travelTimes["car"] = Some(3599)

\* C28 (SpecFormat): every duration d >= 3600 is shown as
\* "{floor(round(d/60)/60)}h {round(d/60) mod 60}m", the minutes in 0..59.
C28_FromOneHourInHoursAndMinutes ==
  \A mode \in TravelMode :
    (/\ TimesShown
     /\ travelTimes[mode] # NULL
     /\ travelTimes[mode][1] >= 3600)
    => \E h \in 1..(MaxSeconds \div 3600 + 1) : \E m \in 0..59 :
         /\ 60 * h + m = (travelTimes[mode][1] + 30) \div 60
         /\ displayedDuration(mode)
              = NumToString(h) \o << "h", " " >> \o NumToString(m)
                \o << "m" >>

\* the duration 3725 is shown, as "1h 2m"
C28_Witness ==
  /\ TimesShown
  /\ travelTimes["car"] = Some(3725)
  /\ displayedDuration("car") = << "1", "h", " ", "2", "m" >>

\* C29 (SpecFormat): in the table shown, a mode without a duration or with
\* the duration 0 is shown as "--", and a mode with a positive duration is
\* not.
C29_PlaceholderForAbsentOrZero ==
  TimesShown
  => \A mode \in TravelMode :
       displayedDuration(mode) = << "-", "-" >>
         <=> (travelTimes[mode] = NULL \/ travelTimes[mode][1] = 0)

\* a table with the duration 0 for one mode and none for the others is shown
C29_Witness ==
  /\ TimesShown
  /\ travelTimes["car"] = Some(0)
  /\ travelTimes["bike"] = NULL
  /\ displayedDuration("car") = << "-", "-" >>
  /\ displayedDuration("bike") = << "-", "-" >>

\* C30 (SpecAverage): in the community modal the rating line of a route is
\* "No ratings yet" when the route has no ratings, and otherwise the mean
\* sum/count of its ratings rounded to one decimal place, a half rounded up.
C30_AverageIsRoundedMean ==
  showCommunity
  => \A i \in 1..Len(communityRoutes) :
       ratingDisplay(communityRoutes[i])
         = IF communityRoutes[i].ratings = <<>> THEN NoRatingsYet
           ELSE TenthsText((20 * Sum(communityRoutes[i].ratings)
                            + Len(communityRoutes[i].ratings))
                           \div (2 * Len(communityRoutes[i].ratings)))

\* C36 (SpecSuggest): whenever the destination text is empty, the
\* suggestion list is empty.
C36_EmptyTextHasNoSuggestions ==
  endPoint = <<>> => suggestions = <<>>

\* C37 (SpecSuggest): whenever no autocomplete request is outstanding, the
\* suggestion-loading flag is false.
C37_LoadingEndsWithTheRequests ==
  fetches = <<>> => ~suggestionLoading

\* C35 (SpecPlan): whenever no planning call is in flight, every
\* current-route path on the map is one fetched for the selected mode.
C35_PathIsOfSelectedMode ==
  ops = {} => \A layer \in mapLayers : layer.mode = selectedMode

\* the table a call holds once the response r to its last route request is
\* in: the entries the call collected itself, and r for the last mode
C32_Table(op, r) == [ op.times EXCEPT ![modes[Len(modes)]] = r ]

\* C32 (SpecPlan): the table of a call starts empty, whatever table is
\* shown and whatever mode the call was made for; the step that answers the
\* last route request of a call publishes exactly the table of that call,
\* and the table shown changes in no other way than by being emptied or by
\* such a publication.
C32_TableIsOfTheCompletingCall ==
  /\ [](\A op \in ops : op.stage <= 1 => op.times = NoTimes)
  /\ [][ \A op \in ops :
           op.stage = Len(modes)
             => /\ routeRejected(op) => travelTimes' = C32_Table(op, NULL)
                /\ \A data \in RouteData(op.from, op.dest) :
                     routeResolved(op, data)
                       => travelTimes'
                            = C32_Table(op, IF Len(data.routes) > 0
                                            THEN Some(data.routes[1].duration)
                                            ELSE NULL) ]_vars
  /\ [][ travelTimes' # travelTimes
           => \/ travelTimes' = NoTimes
              \/ \E op \in ops :
                   /\ op.stage = Len(modes)
                   /\ op \notin ops'
                   /\ \E r \in { NULL } \cup { Some(d) : d \in Durations } :
                        travelTimes' = C32_Table(op, r) ]_vars

\* two calls have ended; the first drew the foot path, so its table had the
\* foot duration; the table shown is the second call's, without foot
C32_Witness ==
  /\ ops = {}
  /\ planCount = 2
  /\ \E layer \in mapLayers : layer.id = 1 /\ layer.mode = "foot"
  /\ travelTimes["foot"] = NULL
  /\ travelTimes["car"] # NULL

\* C33 (SpecSession): at most one draft path and at most one
\* community-route path are on the map.  While a route is authored with two
\* or more points the draft path is the path through exactly those points;
\* outside authoring there is no draft path.  A community-route path on the
\* map is the path of the selected community route; with no route selected
\* there is none.
C33_OnePathPerKind ==
  /\ Cardinality(draftLayers) <= 1
  /\ Cardinality(selectedLayers) <= 1
  /\ ~creatingRoute => draftLayers = {}
  /\ (creatingRoute /\ Len(newRouteCoords) > 1)
       => draftLayers = { LatLngs(newRouteCoords) }
  /\ selectedCommunityRoute = NULL => selectedLayers = {}
  /\ selectedCommunityRoute # NULL
       => selectedLayers \subseteq { RoutePolyline(selectedCommunityRoute[1]) }

\* a second click has drawn the draft path through two points while the
\* path of a selected community route is shown
C33_Witness ==
  /\ creatingRoute
  /\ Len(newRouteCoords) = 2
  /\ draftLayers = { LatLngs(newRouteCoords) }
  /\ selectedCommunityRoute # NULL
  /\ selectedLayers = { RoutePolyline(selectedCommunityRoute[1]) }

\* C34 (SpecNet): the offline indicator is shown exactly when the browser
\* is offline.
C34_IndicatorFollowsConnectivity == isOfflineMode = ~onLine

\* C31 (SpecFrame): a step changes the user position only if it is the
\* success callback of the position request, and a position once set is
\* never unset.
C31_OnlyTheFixSetsThePosition ==
  [][ /\ userLocation' # userLocation
        => \E c \in Positions : getCurrentPositionSuccess(c)
      /\ userLocation # NULL => userLocation' # NULL ]_vars

\* with the position set, the browser has gone offline and a planning call
\* has published its table
C31_Witness ==
  /\ userLocation # NULL
  /\ isOfflineMode
  /\ HasTimes(travelTimes)
  /\ routeLayer # NULL

\* C38 (SpecLocateFair): locationLoading is true after construction; the
\* success callback and the failure callback of the position request, and
\* the effect when geolocation is unsupported, leave it false; it is false
\* while a reverse lookup is outstanding; once false it stays false; and
\* in every component that mounted it is eventually false.
C38_LoadingEndsWithThePositionRequest ==
  /\ locationLoading = TRUE
  /\ [](lookups # <<>> => ~locationLoading)
  /\ [][ /\ (\E c \in Positions : getCurrentPositionSuccess(c))
              => ~locationLoading'
         /\ (\E error \in PositionErrors : getCurrentPositionError(error))
              => ~locationLoading'
         /\ (~supported /\ useEffectGeolocation) => ~locationLoading'
         /\ ~locationLoading => ~locationLoading' ]_vars
  /\ (~crashed ~> ~locationLoading)

\* the position has arrived and its reverse lookup is still outstanding
C38_Witness ==
  /\ ~locationLoading
  /\ userLocation # NULL
  /\ lookups # <<>>
  /\ currentAddress = <<>>

\* C39 (SpecPage): while the token screen is shown the stored token is
\* empty, and while MapInterface is shown its token is non-empty and
\* trimmed.  A submission, by the button or by the Enter key, of a text
\* whose trimmed value is non-empty stores that trimmed value and shows
\* MapInterface; a submission of any other text changes neither the token
\* nor the screen.  Once MapInterface is shown, it stays shown and the
\* token does not change.
C39_TokenGate ==
  /\ [](showTokenInput => mapboxToken = <<>>)
  /\ [](MapInterfaceShown
          => mapboxToken # <<>> /\ trim(mapboxToken) = mapboxToken)
  /\ [][ (showTokenInput /\ (ClickStartNavigation \/ handleKeyPress("Enter")))
           => IF trim(MapPage_tokenInput) # <<>>
              THEN /\ MapInterfaceShown'
                   /\ mapboxToken' = trim(MapPage_tokenInput)
              ELSE /\ showTokenInput'
                   /\ mapboxToken' = <<>> ]_vars
  /\ [][ MapInterfaceShown
           => MapInterfaceShown' /\ mapboxToken' = mapboxToken ]_vars

\* the text " k" was submitted and MapInterface, given the token "k", has
\* the position
C39_Witness ==
  /\ MapInterfaceShown
  /\ MapPage_tokenInput = << " ", "k" >>
  /\ mapboxToken = << "k" >>
  /\ userLocation # NULL

====
